---- MODULE Spec2Model ----
EXTENDS Integers, Sequences, FiniteSets, TLC

\* ---------------------------------------------------------------------------
\* Bounds of the model
\* ---------------------------------------------------------------------------

\* Largest number of ClassDef / MethodDef / Send nodes of an enumerated input tree.
MaxNodes == 3

\* ---------------------------------------------------------------------------
\* AST model (ast::Expression and its node kinds).  Every node is a record of one
\* shape: kind, id (the node's address: pointer identity), fun (the method name of
\* a Send, the name of a ClassDef), isSelf (MethodDef only) and kids (the owned
\* children the tree walker recurses into, in source order).
\* ---------------------------------------------------------------------------

Node(kind, id, fun, isSelf, kids) ==
    [kind |-> kind, id |-> id, fun |-> fun, isSelf |-> isSelf, kids |-> kids]

\* ast::EmptyTree
EmptyTree == Node("EmptyTree", 0, "", FALSE, <<>>)

\* a null unique_ptr<ast::Expression> (the expr of a default-constructed MovedItem)
NullExpr == Node("nullptr", 0, "", FALSE, <<>>)

\* ast::MethodDef: kids = <<rhs>>, the body
MethodDef(id, isSelf, rhs) == Node("MethodDef", id, "", isSelf, <<rhs>>)

\* ast::Send: kids = args
Send(id, fun, args) == Node("Send", id, fun, FALSE, args)

\* ast::ClassDef: kids = rhs, the body statements
ClassDef(id, name, rhs) == Node("ClassDef", id, name, FALSE, rhs)

\* ast::InsSeq: kids = stats \o <<expr>>
InsSeq(stats, expr) == Node("InsSeq", 0, "", FALSE, stats \o <<expr>>)

Front(s) == SubSeq(s, 1, Len(s) - 1)
Last(s) == s[Len(s)]

InsSeqStats(t) == Front(t.kids)
InsSeqExpr(t) == Last(t.kids)

\* ---------------------------------------------------------------------------
\* Input trees.  A statement list becomes what the desugarer makes of it: nothing
\* is an EmptyTree, one statement is itself, several are an InsSeq.  Ids are given
\* in pre-order, so every node of an input has its own address.
\* ---------------------------------------------------------------------------

Body(f) ==
    IF Len(f) = 0 THEN EmptyTree
    ELSE IF Len(f) = 1 THEN f[1]
    ELSE InsSeq(Front(f), Last(f))

RECURSIVE TreesOfSize(_, _), ForestsOfSize(_, _)
TreesOfSize(n, base) ==
    LET sub == ForestsOfSize(n - 1, base + 1) IN
      {MethodDef(base, s, Body(f)) : s \in BOOLEAN, f \in sub}
      \cup {Send(base, fn, f) : fn \in {"private", "foo"}, f \in sub}
      \cup (IF n = 1 THEN {Send(base, "sig", <<>>)} ELSE {})
      \cup {ClassDef(base, "A", IF f = <<>> THEN <<EmptyTree>> ELSE f) : f \in sub}

ForestsOfSize(n, base) ==
    IF n = 0 THEN {<<>>}
    ELSE UNION {{<<t>> \o f : t \in TreesOfSize(k, base),
                              f \in ForestsOfSize(n - k, base + k)} : k \in 1..n}

\* class A; sig{void}; private def foo; sig{void}; def self.bar; end; end; end
S1Tree ==
    ClassDef(1, "A",
        << Send(2, "sig", <<>>),
           Send(3, "private",
                << MethodDef(4, FALSE,
                       InsSeq(<< Send(5, "sig", <<>>) >>,
                              MethodDef(6, TRUE, EmptyTree))) >>) >>)

\* class A; def self.foo; def self.bar; end; end; end
S2Tree ==
    ClassDef(1, "A", << MethodDef(2, TRUE, MethodDef(3, TRUE, EmptyTree)) >>)

\* class A; def f; end; end
S3Tree == ClassDef(1, "A", << MethodDef(2, FALSE, EmptyTree) >>)

\* class A; def self.foo; sig{void}; def self.bar; end; end; end
SigLevel2Tree ==
    ClassDef(1, "A",
        << MethodDef(2, TRUE,
               InsSeq(<< Send(3, "sig", <<>>) >>, MethodDef(4, TRUE, EmptyTree))) >>)

\* class A; def self.a; def b; end; def self.c; end; end; end
MixedLevelsTree ==
    ClassDef(1, "A",
        << MethodDef(2, TRUE,
               InsSeq(<< MethodDef(3, FALSE, EmptyTree) >>,
                      MethodDef(4, TRUE, EmptyTree))) >>)

\* class A; def self.a; def self.b; def self.c; end; end; end; end
Level3Tree ==
    ClassDef(1, "A",
        << MethodDef(2, TRUE, MethodDef(3, TRUE, MethodDef(4, TRUE, EmptyTree))) >>)

\* class A; sig{void}; def a; def b; end; private def c; end; end; end
TwoLiftedTree ==
    ClassDef(1, "A",
        << Send(2, "sig", <<>>),
           MethodDef(3, FALSE,
               InsSeq(<< MethodDef(4, FALSE, EmptyTree) >>,
                      Send(5, "private", << MethodDef(6, FALSE, EmptyTree) >>))) >>)

\* def a; def b; end; def c; end; end; foo   (a file without an enclosing class)
RootSeqTree ==
    InsSeq(<< MethodDef(1, FALSE,
                  InsSeq(<< MethodDef(2, FALSE, EmptyTree) >>,
                         MethodDef(3, FALSE, EmptyTree))) >>,
           Send(4, "foo", <<>>))

\* class A; def self.foo; private def bar; end; end; end
PrivateInStaticTree ==
    ClassDef(1, "A",
        << MethodDef(2, TRUE,
               Send(3, "private", << MethodDef(4, FALSE, EmptyTree) >>)) >>)

\* the inputs beyond MaxNodes that are always tried
Scenarios ==
    {S1Tree, S2Tree, S3Tree, SigLevel2Tree, MixedLevelsTree, Level3Tree,
     TwoLiftedTree, RootSeqTree, PrivateInStaticTree}

Inputs ==
    {Body(f) : f \in UNION {ForestsOfSize(n, 1) : n \in 0..MaxNodes}} \cup Scenarios

\* ---------------------------------------------------------------------------
\* State
\* ---------------------------------------------------------------------------

VARIABLES
    input,          \* the tree handed to Flatten::run
    run,            \* 1: Flatten::run(T); 2: Flatten::run applied to its own result
    pc,             \* "pre" / "post": the hook the walker calls next on the top frame;
                    \* "addMethods": TreeMap::apply has returned; "done"; "ub"
    walk,           \* recursion stack of TreeMap::apply: frames [node, idx]
    tree,           \* the tree returned by TreeMap::apply, then by Flatten::run
    methodScopes,   \* FlattenWalk::methodScopes
    skipMethods,    \* FlattenWalk::skipMethods (addresses of MethodDef nodes)
    enforce,        \* TRUE while every ENFORCE evaluated so far has held
    lastFlush       \* what the last addMethods call was given and returned

vars == <<input, run, pc, walk, tree, methodScopes, skipMethods, enforce, lastFlush>>

NoFlush == [scope |-> "none", rhs |-> <<>>, exprs |-> <<>>, out |-> <<>>]

\* ---------------------------------------------------------------------------
\* FlattenWalk helpers
\* ---------------------------------------------------------------------------

\* struct Methods, default constructed
Methods == [methods |-> <<>>, stack |-> <<>>]

\* struct MethodData
MethodData(idx, staticLevel) == [idx |-> idx, staticLevel |-> staticLevel]

\* struct MovedItem
MovedItem(expr, staticLevel) == [expr |-> expr, staticLevel |-> staticLevel]

newMethodSet(scopes) == Append(scopes, Methods)

curMethodSet == methodScopes[Len(methodScopes)]

\* mutant: the scope is left on the stack
popCurMethodSet_Keep(scopes) == scopes

popCurMethodSet(scopes) == Front(scopes)

ModifierNames == {"private", "protected", "public", "private_class_method"}

isMethodModifier(send) ==
    /\ send.fun \in ModifierNames
    /\ Len(send.kids) = 1
    /\ send.kids[1].kind = "MethodDef"

computeStaticLevel(methodDef, methods) ==
    LET prevLevel == IF Len(methods.stack) > 0
                     THEN Last(methods.stack).staticLevel
                     ELSE 0
    IN prevLevel + (IF methodDef.isSelf THEN 1 ELSE 0)

\* mutant: a slot is reserved even when the pending stack is empty
pushFrame_AlwaysReserve(methods, staticLevel) ==
    [methods |-> Append(methods.methods, MovedItem(NullExpr, 0)),
     stack |-> Append(methods.stack, MethodData(Len(methods.methods), staticLevel))]

\* the frame push shared by preTransformMethodDef and preTransformSend
pushFrame(methods, staticLevel) ==
    IF Len(methods.stack) = 0
    THEN [methods EXCEPT !.stack = Append(@, MethodData(-1, staticLevel))]
    ELSE [methods |-> Append(methods.methods, MovedItem(NullExpr, 0)),
          stack |-> Append(methods.stack,
                           MethodData(Len(methods.methods), staticLevel))]

\* mutant: the slot is reserved and popped but the node is never stored in it
fillSlot_NotStored(methods, expr) ==
    [methods |-> methods.methods, stack |-> Front(methods.stack)]

\* methods.methods[stack.back().idx] = {move(expr), stack.back().staticLevel};
\* methods.stack.pop_back();
fillSlot(methods, expr) ==
    LET back == Last(methods.stack) IN
      [methods |-> [methods.methods EXCEPT
                       ![back.idx + 1] = MovedItem(expr, back.staticLevel)],
       stack |-> Front(methods.stack)]

\* ---------------------------------------------------------------------------
\* Tree walker (TreeMap::apply): pre hook, children in source order, post hook.
\* ---------------------------------------------------------------------------

top == walk[Len(walk)]

Frame(node) == [node |-> node, idx |-> 0]

\* after the pre hook of the top frame: recurse into its first child, if any
WalkDescend(w) ==
    LET f == Last(w) IN
      IF Len(f.node.kids) = 0
      THEN [walk |-> w, pc |-> "post"]
      ELSE [walk |-> Append(w, Frame(f.node.kids[1])), pc |-> "pre"]

\* the top frame's node has been mapped to r: substitute it in its parent's slot
\* and go on with the next sibling, or with the parent's post hook
WalkReturn(w, r) ==
    IF Len(w) = 1
    THEN [walk |-> <<>>, pc |-> "addMethods", tree |-> r]
    ELSE LET p == w[Len(w) - 1]
             q == [node |-> [p.node EXCEPT !.kids[p.idx + 1] = r],
                   idx |-> p.idx + 1]
             rest == Append(SubSeq(w, 1, Len(w) - 2), q)
         IN IF q.idx = Len(q.node.kids)
            THEN [walk |-> rest, pc |-> "post", tree |-> EmptyTree]
            ELSE [walk |-> Append(rest, Frame(q.node.kids[q.idx + 1])),
                  pc |-> "pre", tree |-> EmptyTree]

Descend ==
    LET d == WalkDescend(walk) IN
      /\ walk' = d.walk
      /\ pc' = d.pc
      /\ tree' = tree

Return(r) ==
    LET x == WalkReturn(walk, r) IN
      /\ walk' = x.walk
      /\ pc' = x.pc
      /\ tree' = x.tree

\* ---------------------------------------------------------------------------
\* addMethods(ctx, rhs, loc): flush of the current method set into a class body
\* ---------------------------------------------------------------------------

isSig(expr) == expr.kind = "Send" /\ expr.fun = "sig"

\* mutant: highestLevel is computed but a sig keeps its own level
RECURSIVE fixupLoop_NoRebind(_, _, _)
fixupLoop_NoRebind(exprs, i, highestLevel) ==
    IF i >= Len(exprs)
    THEN [exprs |-> exprs, highestLevel |-> highestLevel]
    ELSE fixupLoop_NoRebind(exprs, i + 1,
                            IF highestLevel < exprs[i + 1].staticLevel
                            THEN exprs[i + 1].staticLevel
                            ELSE highestLevel)

\* the first loop: highestLevel, and a sig takes the level of the item after it.
\* i counts from 0 as in the source; exprs[i + 1] here is exprs[i] there.
RECURSIVE fixupLoop(_, _, _)
fixupLoop(exprs, i, highestLevel) ==
    IF i >= Len(exprs)
    THEN [exprs |-> exprs, highestLevel |-> highestLevel]
    ELSE LET expr == exprs[i + 1]
             hl == IF highestLevel < expr.staticLevel
                   THEN expr.staticLevel
                   ELSE highestLevel
             fixed == IF i > 0 /\ isSig(exprs[i].expr)
                      THEN [exprs EXCEPT ![i].staticLevel = expr.staticLevel]
                      ELSE exprs
         IN fixupLoop(fixed, i + 1, hl)

\* mutant: the loop starts at level 1, one block too many
newNestedBlocks_FromLevelOne(highestLevel) == [level \in 1..highestLevel |-> <<>>]

\* nestedBlocks: one empty body per level 2..highestLevel
newNestedBlocks(highestLevel) == [level \in 1..(highestLevel - 1) |-> <<>>]

\* methodDef->setIsSelf(expr.staticLevel > 0), for a moved item that is a MethodDef
setIsSelf(item) ==
    IF item.expr.kind = "MethodDef"
    THEN [item.expr EXCEPT !.isSelf = (item.staticLevel > 0)]
    ELSE item.expr

\* "move everything to its appropriate target": targets[0] and targets[1] are the
\* class body, targets[L] for L >= 2 is nestedBlocks[L - 2].  ok is FALSE when an
\* index falls outside targets.
RECURSIVE moveLoop(_, _, _, _)
moveLoop(exprs, i, rhs, nestedBlocks) ==
    IF i > Len(exprs)
    THEN [rhs |-> rhs, nestedBlocks |-> nestedBlocks, ok |-> TRUE]
    ELSE LET level == exprs[i].staticLevel
             e == setIsSelf(exprs[i])
         IN IF level \in {0, 1}
            THEN moveLoop(exprs, i + 1, Append(rhs, e), nestedBlocks)
            ELSE IF level >= 2 /\ level - 1 <= Len(nestedBlocks)
            THEN moveLoop(exprs, i + 1, rhs,
                          [nestedBlocks EXCEPT ![level - 1] = Append(@, e)])
            ELSE [rhs |-> rhs, nestedBlocks |-> nestedBlocks, ok |-> FALSE]

\* ast::MK::Class(loc, loc, UnresolvedIdent(singleton), {}, body, Class)
singletonClass(body) == ClassDef(0, "singleton", body)

\* mutant: the class << self blocks are put in front of the class body
appendNestedBlocks_InFront(rhs, nestedBlocks) ==
    [k \in 1..Len(nestedBlocks) |-> ClassDef(0, "singleton", nestedBlocks[k])] \o rhs

\* "generate the nested class << self blocks as needed and add them to the class"
appendNestedBlocks(rhs, nestedBlocks) ==
    rhs \o [k \in 1..Len(nestedBlocks) |-> singletonClass(nestedBlocks[k])]

addMethodsRHS(methods, rhs) ==
    IF Len(methods) = 1 /\ Len(rhs) = 1 /\ rhs[1].kind = "EmptyTree"
    THEN [rhs |-> <<methods[1].expr>>, ok |-> TRUE]
    ELSE LET fx == fixupLoop(methods, 0, 0)
             mv == moveLoop(fx.exprs, 1, rhs, newNestedBlocks(fx.highestLevel))
         IN [rhs |-> appendNestedBlocks(mv.rhs, mv.nestedBlocks), ok |-> mv.ok]

\* ---------------------------------------------------------------------------
\* addMethods(ctx, tree): flush of the root method set
\* ---------------------------------------------------------------------------

movedExprs(methods) == [k \in 1..Len(methods) |-> methods[k].expr]

\* mutant: the tree is wrapped even when it already is an InsSeq
addMethodsTree_AlwaysWrap(t, methods) ==
    IF Len(methods) = 0 THEN t
    ELSE IF Len(methods) = 1 /\ t.kind = "EmptyTree" THEN methods[1].expr
    ELSE InsSeq([k \in 1..Len(methods) |-> methods[k].expr], t)

RECURSIVE addMethodsTree(_, _)
addMethodsTree(t, methods) ==
    IF Len(methods) = 0 THEN t
    ELSE IF Len(methods) = 1 /\ t.kind = "EmptyTree" THEN methods[1].expr
    ELSE IF t.kind # "InsSeq" THEN addMethodsTree(InsSeq(<<>>, t), methods)
    ELSE InsSeq(InsSeqStats(t) \o movedExprs(methods), InsSeqExpr(t))

\* ---------------------------------------------------------------------------
\* Actions
\* ---------------------------------------------------------------------------

setCur(ms) == [methodScopes EXCEPT ![Len(methodScopes)] = ms]

isMovable(send) == send.fun = "sig" \/ isMethodModifier(send)

\* FlattenWalk(): newMethodSet();  TreeMap::apply(ctx, flatten, tree) starts
\* ---------------------------------------------------------------------------
\* The language server: data model of the edit committer
\* (src/main/lsp/request_dispatch.cc, src/main/lsp/lsp.h)
\* ---------------------------------------------------------------------------

\* the last epoch a workspace edit carries
MaxEpoch == 2
\* the largest number of files in one workspace edit
MaxEditFiles == 2
Paths == {"x.rb", "y.rb"}

\* file bodies: A1 and A2 define the same class hierarchy, B another one, and
\* bad does not parse
Sources == {"A1", "A2", "B", "bad"}

File(path, source) == [path |-> path, source |-> source]

\* a null shared_ptr<core::File>
NullFile == [path |-> "", source |-> ""]

HASH_STATE_NOT_COMPUTED == "NOT_COMPUTED"
HASH_STATE_INVALID == "INVALID"

\* core::FileHash: the hierarchy hash of the definitions and the remainder
FileHash(hierarchyHash, usages) == [hierarchyHash |-> hierarchyHash, usages |-> usages]

\* core::FileHash{}
DefaultFileHash == FileHash(HASH_STATE_NOT_COMPUTED, "")

\* pipeline::computeFileHash
computeFileHash(file) ==
    IF file.source \in {"A1", "A2"} THEN FileHash("H", file.source)
    ELSE IF file.source = "B" THEN FileHash("H2", file.source)
    ELSE FileHash(HASH_STATE_INVALID, file.source)

\* computeStateHashes: res[i] is the hash of files[i], FileHash{} for a null file
computeStateHashes(files) ==
    [i \in 1..Len(files) |->
        IF files[i] = NullFile THEN DefaultFileHash ELSE computeFileHash(files[i])]

\* core::GlobalState's file table; FileRef ids are 1..Len, id 0 does not exist
GlobalState(files) == [files |-> files]

\* gs.findFileByPath(path): the id of the file, 0 (!fref.exists()) when unknown
findFileByPath(gs, path) ==
    IF \E id \in 1..Len(gs.files) : gs.files[id].path = path
    THEN CHOOSE id \in 1..Len(gs.files) : gs.files[id].path = path
    ELSE 0

\* a default-constructed LSPFileUpdates
LSPFileUpdates ==
    [epoch |-> 0, editCount |-> 0, canTakeFastPath |-> FALSE, hasNewFiles |-> FALSE,
     updatedFiles |-> <<>>, updatedFileHashes |-> <<>>, updatedFileIndexes |-> <<>>,
     updatedGS |-> <<>>]

\* an empty UnorderedMap<int, core::FileHash>
NoHashes == [id \in {} |-> DefaultFileHash]

\* the snapshots the server can hold once the initialized notification is handled
InitialSnapshots ==
    {GlobalState(<<File("x.rb", "A1")>>),
     GlobalState(<<File("x.rb", "A1"), File("y.rb", "B")>>)}

VARIABLES
    config,             \* LSPConfiguration: [disableFastPath]
    initialGS,          \* LSPLoop::initialGS
    globalStateHashes,  \* LSPLoop::globalStateHashes
    lastSlowPathUpdate,                 \* LSPLoop::lastSlowPathUpdate
    lastSlowPathEvictedStateHashes,     \* LSPLoop::lastSlowPathEvictedStateHashes
    runningSlowPath,    \* GlobalState: <<epoch>> of the cancelable slow path, else <<>>
    canceledEpochs,     \* epochs of the slow paths marked canceled
    nextEpoch,          \* the epoch the preprocessor gives the next edit
    coord,              \* the coordinator thread: [pc, update, merged, evictedHashes]
    tasks,              \* the typechecker thread's queue of submitted tasks
    tcGS,               \* the typechecker's committed state
    tcLog,              \* the tasks that took effect on the typechecker thread
    lastCommit,         \* what commitEdit last computed, and from which snapshot
    returned,           \* the update commitEdit last returned, how it was dispatched
    lspEnforce          \* TRUE while every ENFORCE of the committer has held

lspVars == <<config, initialGS, globalStateHashes, lastSlowPathUpdate,
             lastSlowPathEvictedStateHashes, runningSlowPath, canceledEpochs,
             nextEpoch, coord, tasks, tcGS, tcLog, lastCommit, returned, lspEnforce>>

\* the messages processRequestInternal has handled and what it wrote to the client
VARIABLES
    output,             \* config->output: the messages written to the client
    msgLog              \* the messages handled, each with what was queued and written before it

reqVars == <<output, msgLog>>

\* one call of computeStateHashes: the caller and the workers of the pool
VARIABLES
    hashFiles,          \* files: the argument
    hashPc,             \* the caller: "start", "drain", "returned"
    hashWorkers,        \* per worker: [pc, threadResult, processedByThread]
    fileq,              \* the work queue of file indices
    resultq,            \* the result queue: [items, elementsLeftToPush]
    res,                \* the output vector
    popped              \* per file index, the workers that took it from fileq

hashVars == <<hashFiles, hashPc, hashWorkers, fileq, resultq, res, popped>>

\* one call of Flatfiles::run
VARIABLES
    flatInput,          \* the ClassDef as the caller handed it over
    klassDef,           \* the ClassDef object, as the rewriter has left it so far
    klass,              \* the parameter klass: "klassDef" or "nullptr"
    accessors,          \* the local vector methods
    flatPc              \* "guards", "synthesize", "append", "returned", "ub"

flatVars == <<flatInput, klassDef, klass, accessors, flatPc>>

allVars == <<vars, lspVars, reqVars, hashVars, flatVars>>

\* ast::ClassDef as Flatfiles::run reads it: kind, ancestors, rhs
FlatClassDef(kind, ancestors, rhs) == [kind |-> kind, ancestors |-> ancestors, rhs |-> rhs]

\* Flatfiles::run is not running
FlatfilesIdle ==
    /\ flatInput = FlatClassDef("Module", <<>>, <<>>)
    /\ klassDef = flatInput
    /\ klass = "klassDef"
    /\ accessors = <<>>
    /\ flatPc = "returned"

\* nothing handled yet
ReqInit ==
    /\ output = <<>>
    /\ msgLog = <<>>

\* computeStateHashes is not running
HashIdle ==
    /\ hashFiles = <<>>
    /\ hashPc = "returned"
    /\ hashWorkers = <<>>
    /\ fileq = <<>>
    /\ resultq = [items |-> <<>>, elementsLeftToPush |-> 0]
    /\ res = <<>>
    /\ popped = <<>>

CoordIdle == [pc |-> "idle", update |-> LSPFileUpdates, merged |-> LSPFileUpdates,
              evictedHashes |-> NoHashes]

NoCommit == [called |-> FALSE]

NoReturn == [epoch |-> 0]

\* LSPLoop after construction and the initialized notification: the snapshot is
\* indexed, globalStateHashes = computeStateHashes(initialGS->getFiles()) and the
\* typechecker is initialized with a copy of the snapshot
LSPLoopInit(gs, disableFastPath) ==
    /\ config = [disableFastPath |-> disableFastPath]
    /\ initialGS = gs
    /\ globalStateHashes = computeStateHashes(gs.files)
    /\ lastSlowPathUpdate = LSPFileUpdates
    /\ lastSlowPathEvictedStateHashes = NoHashes
    /\ runningSlowPath = <<>>
    /\ canceledEpochs = {}
    /\ nextEpoch = 1
    /\ coord = CoordIdle
    /\ tasks = <<>>
    /\ tcGS = gs
    /\ tcLog = <<>>
    /\ lastCommit = NoCommit
    /\ returned = NoReturn
    /\ lspEnforce = TRUE


Init ==
    /\ input \in Inputs
    /\ run = 1
    /\ pc = "pre"
    /\ walk = <<Frame(input)>>
    /\ tree = EmptyTree
    /\ methodScopes = newMethodSet(<<>>)
    /\ skipMethods = {}
    /\ enforce = TRUE
    /\ lastFlush = NoFlush
    /\ LSPLoopInit(GlobalState(<<File("x.rb", "A1")>>), FALSE)
    /\ ReqInit
    /\ FlatfilesIdle
    /\ HashIdle

\* the walker maps a node without children and without hooks to itself
mapLeaf ==
    /\ pc = "pre"
    /\ top.node.kind = "EmptyTree"
    /\ Return(top.node)
    /\ UNCHANGED <<input, run, methodScopes, skipMethods, enforce, lastFlush>>
    /\ UNCHANGED <<lspVars, reqVars, hashVars, flatVars>>

\* FlattenWalk has no hook for InsSeq: the walker recurses into stats and expr
mapInsSeq ==
    /\ pc = "pre"
    /\ top.node.kind = "InsSeq"
    /\ Descend
    /\ UNCHANGED <<input, run, methodScopes, skipMethods, enforce, lastFlush>>
    /\ UNCHANGED <<lspVars, reqVars, hashVars, flatVars>>

mapInsSeqDone ==
    /\ pc = "post"
    /\ top.node.kind = "InsSeq"
    /\ Return(top.node)
    /\ UNCHANGED <<input, run, methodScopes, skipMethods, enforce, lastFlush>>
    /\ UNCHANGED <<lspVars, reqVars, hashVars, flatVars>>

preTransformClassDef ==
    /\ pc = "pre"
    /\ top.node.kind = "ClassDef"
    /\ methodScopes' = newMethodSet(methodScopes)
    /\ Descend
    /\ UNCHANGED <<input, run, skipMethods, enforce, lastFlush>>
    /\ UNCHANGED <<lspVars, reqVars, hashVars, flatVars>>

preTransformMethodDef ==
    /\ pc = "pre"
    /\ top.node.kind = "MethodDef"
    /\ LET methodDef == top.node
           methods == curMethodSet
       IN IF methodDef.id \in skipMethods
          THEN /\ enforce' = (enforce /\ Len(methods.stack) > 0)
               /\ UNCHANGED methodScopes
          ELSE /\ methodScopes' =
                     setCur(pushFrame(methods, computeStaticLevel(methodDef, methods)))
               /\ UNCHANGED enforce
    /\ Descend
    /\ UNCHANGED <<input, run, skipMethods, lastFlush>>
    /\ UNCHANGED <<lspVars, reqVars, hashVars, flatVars>>

preTransformSend ==
    /\ pc = "pre"
    /\ top.node.kind = "Send"
    /\ LET send == top.node
           methods == curMethodSet
       IN IF isMovable(send)
          THEN LET modifier == isMethodModifier(send) /\ Len(send.kids) >= 1
                   staticLevel == IF modifier
                                  THEN computeStaticLevel(send.kids[1], methods)
                                  ELSE 0
               IN /\ skipMethods' = IF modifier
                                    THEN skipMethods \cup {send.kids[1].id}
                                    ELSE skipMethods
                  /\ methodScopes' = setCur(pushFrame(methods, staticLevel))
          ELSE UNCHANGED <<skipMethods, methodScopes>>
    /\ Descend
    /\ UNCHANGED <<input, run, enforce, lastFlush>>
    /\ UNCHANGED <<lspVars, reqVars, hashVars, flatVars>>

\* the tail shared by postTransformSend and postTransformMethodDef: keep the node
\* in place when its frame has idx -1, else move it into its slot and leave an
\* EmptyTree.  back() of an empty stack is undefined: the walk stops in "ub".
moveOrKeep(node) ==
    LET methods == curMethodSet IN
      IF Len(methods.stack) = 0
      THEN /\ enforce' = FALSE
           /\ pc' = "ub"
           /\ UNCHANGED <<walk, tree, methodScopes>>
      ELSE IF Last(methods.stack).idx = -1
      THEN /\ methodScopes' = setCur([methods EXCEPT !.stack = Front(@)])
           /\ Return(node)
           /\ UNCHANGED enforce
      ELSE LET idx == Last(methods.stack).idx IN
             /\ enforce' = (/\ enforce
                            /\ Len(methods.methods) > idx
                            /\ methods.methods[idx + 1].expr = NullExpr)
             /\ methodScopes' = setCur(fillSlot(methods, node))
             /\ Return(EmptyTree)

postTransformSend ==
    /\ pc = "post"
    /\ top.node.kind = "Send"
    /\ IF isMovable(top.node)
       THEN moveOrKeep(top.node)
       ELSE /\ Return(top.node)
            /\ UNCHANGED <<methodScopes, enforce>>
    /\ UNCHANGED <<input, run, skipMethods, lastFlush>>
    /\ UNCHANGED <<lspVars, reqVars, hashVars, flatVars>>

postTransformMethodDef ==
    /\ pc = "post"
    /\ top.node.kind = "MethodDef"
    /\ IF top.node.id \in skipMethods
       THEN /\ Return(top.node)
            /\ UNCHANGED <<methodScopes, enforce>>
       ELSE moveOrKeep(top.node)
    /\ UNCHANGED <<input, run, skipMethods, lastFlush>>
    /\ UNCHANGED <<lspVars, reqVars, hashVars, flatVars>>

\* classDef->rhs = addMethods(ctx, std::move(classDef->rhs), classDef->loc)
postTransformClassDef ==
    /\ pc = "post"
    /\ top.node.kind = "ClassDef"
    /\ LET classDef == top.node
           ms == curMethodSet
           r == addMethodsRHS(ms.methods, classDef.kids)
       IN /\ enforce' = (enforce /\ Len(ms.stack) = 0)
          /\ methodScopes' = popCurMethodSet(methodScopes)
          /\ lastFlush' = [scope |-> "class", rhs |-> classDef.kids,
                           exprs |-> ms.methods, out |-> r.rhs]
          /\ IF r.ok
             THEN Return([classDef EXCEPT !.kids = r.rhs])
             ELSE /\ pc' = "ub"
                  /\ UNCHANGED <<walk, tree>>
    /\ UNCHANGED <<input, run, skipMethods>>
    /\ UNCHANGED <<lspVars, reqVars, hashVars, flatVars>>

\* tree = flatten.addMethods(ctx, std::move(tree)); return tree; ~FlattenWalk()
\* (the ENFORCEs are evaluated, as in a debug build: popCurMethodDefs runs in
\* every branch)
addMethods ==
    /\ pc = "addMethods"
    /\ LET ms == curMethodSet
           out == addMethodsTree(tree, ms.methods)
       IN /\ tree' = out
          /\ lastFlush' = [scope |-> "root", rhs |-> <<tree>>,
                           exprs |-> ms.methods, out |-> <<out>>]
          /\ methodScopes' = popCurMethodSet(methodScopes)
          /\ enforce' = (/\ enforce
                         /\ Len(ms.stack) = 0
                         /\ \A k \in 1..Len(ms.methods) : ms.methods[k].expr # NullExpr
                         /\ Len(methodScopes) = 1)
    /\ pc' = "done"
    /\ UNCHANGED <<input, run, walk, skipMethods>>
    /\ UNCHANGED <<lspVars, reqVars, hashVars, flatVars>>

\* Flatten::run called on the tree the first call returned, with a new FlattenWalk
flattenAgain ==
    /\ pc = "done"
    /\ run = 1
    /\ input' = tree
    /\ run' = 2
    /\ pc' = "pre"
    /\ walk' = <<Frame(tree)>>
    /\ tree' = EmptyTree
    /\ methodScopes' = newMethodSet(<<>>)
    /\ skipMethods' = {}
    /\ lastFlush' = NoFlush
    /\ UNCHANGED enforce
    /\ UNCHANGED <<lspVars, reqVars, hashVars, flatVars>>

Next ==
    \/ mapLeaf
    \/ mapInsSeq
    \/ mapInsSeqDone
    \/ preTransformClassDef
    \/ preTransformMethodDef
    \/ preTransformSend
    \/ postTransformSend
    \/ postTransformMethodDef
    \/ postTransformClassDef
    \/ addMethods
    \/ flattenAgain

Spec == Init /\ [][Next]_vars

\* ---------------------------------------------------------------------------
\* Tree queries used by the properties
\* ---------------------------------------------------------------------------

RECURSIVE SumSeq(_)
SumSeq(s) == IF Len(s) = 0 THEN 0 ELSE Head(s) + SumSeq(Tail(s))

RECURSIVE Subtrees(_)
Subtrees(t) == {t} \cup UNION {Subtrees(t.kids[k]) : k \in 1..Len(t.kids)}

\* how many nodes of this kind and id the tree holds
RECURSIVE CountNode(_, _, _)
CountNode(t, kind, id) ==
    (IF t.kind = kind /\ t.id = id THEN 1 ELSE 0)
    + SumSeq([k \in 1..Len(t.kids) |-> CountNode(t.kids[k], kind, id)])

NodesOfKind(t, kind) == {n \in Subtrees(t) : n.kind = kind}

FindNode(t, kind, id) == CHOOSE n \in Subtrees(t) : n.kind = kind /\ n.id = id

Finished == pc = "done" /\ run = 1

\* ---------------------------------------------------------------------------
\* C1.  In the result of Flatten::run no MethodDef lies below a node that is not a
\* class body or a MethodDef (here: below a Send), except a MethodDef that is the
\* sole argument of a visibility-modifier Send.  inExpr says that a Send has been
\* passed on the way down from the enclosing ClassDef or MethodDef.
\* ---------------------------------------------------------------------------

RECURSIVE HasStrayMethodDef(_, _)
HasStrayMethodDef(t, inExpr) ==
    IF t.kind = "MethodDef"
    THEN inExpr \/ HasStrayMethodDef(t.kids[1], FALSE)
    ELSE IF t.kind = "Send" /\ isMethodModifier(t)
    THEN HasStrayMethodDef(t.kids[1].kids[1], FALSE)
    ELSE IF t.kind = "Send"
    THEN \E k \in 1..Len(t.kids) : HasStrayMethodDef(t.kids[k], TRUE)
    ELSE IF t.kind = "ClassDef"
    THEN \E k \in 1..Len(t.kids) : HasStrayMethodDef(t.kids[k], FALSE)
    ELSE \E k \in 1..Len(t.kids) : HasStrayMethodDef(t.kids[k], inExpr)

C1_NoMethodDefBelowExpression == Finished => ~HasStrayMethodDef(tree, FALSE)

\* ---------------------------------------------------------------------------
\* C2.  In the result of Flatten::run no MethodDef has a MethodDef among its
\* ancestors.
\* ---------------------------------------------------------------------------

RECURSIVE HasMethodDefInMethodDef(_, _)
HasMethodDefInMethodDef(t, inDef) ==
    IF t.kind = "MethodDef"
    THEN inDef \/ HasMethodDefInMethodDef(t.kids[1], TRUE)
    ELSE \E k \in 1..Len(t.kids) : HasMethodDefInMethodDef(t.kids[k], inDef)

C2_NoMethodDefInMethodDef == Finished => ~HasMethodDefInMethodDef(tree, FALSE)

\* ---------------------------------------------------------------------------
\* C3.  Flattening neither loses nor duplicates a method definition: every
\* MethodDef (by name, which is its id here) occurs in the result as often as in
\* the input, with the body it had in the input but for an EmptyTree where a
\* nested definition was removed, and every flush emits only filled slots.
\* ---------------------------------------------------------------------------

MethodDefIds(t) == {n.id : n \in NodesOfKind(t, "MethodDef")}

\* a method body of the input with an EmptyTree for every MethodDef and movable
\* Send of its class scope; a ClassDef in it is the flattened ClassDef of result
RECURSIVE Emptied(_, _)
Emptied(t, result) ==
    IF t.kind = "MethodDef" \/ (t.kind = "Send" /\ isMovable(t))
    THEN EmptyTree
    ELSE IF t.kind = "ClassDef"
    THEN FindNode(result, "ClassDef", t.id)
    ELSE [t EXCEPT !.kids = [k \in 1..Len(t.kids) |-> Emptied(t.kids[k], result)]]

C3_MethodDefsPreserved ==
    /\ pc = "done" =>
          /\ \A id \in MethodDefIds(input) \cup MethodDefIds(tree) :
                CountNode(tree, "MethodDef", id) = CountNode(input, "MethodDef", id)
          /\ \A d \in NodesOfKind(input, "MethodDef") :
                FindNode(tree, "MethodDef", d.id).kids[1] = Emptied(d.kids[1], tree)
    /\ \A k \in 1..Len(lastFlush.exprs) : lastFlush.exprs[k].expr # NullExpr

C3_Witness ==
    /\ Finished
    /\ tree # input
    /\ Cardinality(MethodDefIds(input)) >= 3
    /\ Len(lastFlush.exprs) >= 1

\* ---------------------------------------------------------------------------
\* C4.  Every MethodDef the flattener lifts ends with is_static = (level > 0),
\* its level being the level of the enclosing frame of its class scope (0 without
\* one) plus 1 if it is self.-qualified.  LiftedDefs computes, from the input
\* alone, the MethodDefs that are moved on their own and their levels.
\* ---------------------------------------------------------------------------

RECURSIVE LiftedDefs(_, _, _)
LiftedDefs(t, hasFrame, frameLevel) ==
    LET below(has, lvl, kids) ==
            UNION {LiftedDefs(kids[k], has, lvl) : k \in 1..Len(kids)}
        selfLevel(d) == frameLevel + (IF d.isSelf THEN 1 ELSE 0)
    IN IF t.kind = "MethodDef"
       THEN (IF hasFrame THEN {[id |-> t.id, level |-> selfLevel(t)]} ELSE {})
            \cup below(TRUE, selfLevel(t), t.kids)
       ELSE IF t.kind = "Send" /\ isMethodModifier(t)
       THEN below(TRUE, selfLevel(t.kids[1]), t.kids[1].kids)
       ELSE IF t.kind = "Send" /\ t.fun = "sig"
       THEN below(TRUE, 0, t.kids)
       ELSE IF t.kind = "ClassDef"
       THEN below(FALSE, 0, t.kids)
       ELSE below(hasFrame, frameLevel, t.kids)

C4_LiftedIsStaticFromLevel ==
    Finished =>
        \A r \in LiftedDefs(input, FALSE, 0) :
            FindNode(tree, "MethodDef", r.id).isSelf = (r.level > 0)

\* ---------------------------------------------------------------------------
\* C5.  Scenario S1: the body of A becomes sig, private def foo (emptied), sig,
\* def bar, and the lifted bar has is_static = false.
\* ---------------------------------------------------------------------------

S1Expected ==
    ClassDef(1, "A",
        << Send(2, "sig", <<>>),
           Send(3, "private",
                << MethodDef(4, FALSE, InsSeq(<<EmptyTree>>, EmptyTree)) >>),
           Send(5, "sig", <<>>),
           MethodDef(6, FALSE, EmptyTree) >>)

C5_ScenarioS1 == (Finished /\ input = S1Tree) => tree = S1Expected

\* ---------------------------------------------------------------------------
\* C6.  At a class flush the items of level 0 and 1 are appended to the class
\* body, then one singleton ClassDef per level 2..highest, in increasing level,
\* holding exactly the items of that level in moved order; no target index is out
\* of range.  Scenario S2 is the instance with one item of level 2.
\* ---------------------------------------------------------------------------

\* the level an item is distributed at: a sig takes the level of the next item
ReboundLevel(exprs, k) ==
    IF k < Len(exprs) /\ isSig(exprs[k].expr)
    THEN exprs[k + 1].staticLevel
    ELSE exprs[k].staticLevel

RECURSIVE MaxLevel(_)
MaxLevel(exprs) ==
    IF Len(exprs) = 0 THEN 0
    ELSE LET m == MaxLevel(Tail(exprs)) IN
           IF Head(exprs).staticLevel > m THEN Head(exprs).staticLevel ELSE m

\* the (kind, id) of the items distributed at one of the given levels, in order
RECURSIVE ItemsAtLevels(_, _, _)
ItemsAtLevels(exprs, k, levels) ==
    IF k > Len(exprs) THEN <<>>
    ELSE (IF ReboundLevel(exprs, k) \in levels
          THEN << <<exprs[k].expr.kind, exprs[k].expr.id>> >>
          ELSE <<>>)
         \o ItemsAtLevels(exprs, k + 1, levels)

KindIds(s) == [k \in 1..Len(s) |-> <<s[k].kind, s[k].id>>]

S2Expected ==
    ClassDef(1, "A",
        << MethodDef(2, TRUE, EmptyTree),
           ClassDef(0, "singleton", << MethodDef(3, TRUE, EmptyTree) >>) >>)

C6_ClassFlushLayout ==
    /\ pc # "ub"
    /\ lastFlush.scope = "class" =>
          LET exprs == lastFlush.exprs
              rhs == lastFlush.rhs
              out == lastFlush.out
              highest == MaxLevel(exprs)
              inBody == ItemsAtLevels(exprs, 1, {0, 1})
              nBlocks == IF highest >= 2 THEN highest - 1 ELSE 0
              at == Len(rhs) + Len(inBody)
          IN /\ Len(out) = at + nBlocks
             /\ SubSeq(out, 1, Len(rhs)) = rhs
             /\ KindIds(SubSeq(out, Len(rhs) + 1, at)) = inBody
             /\ \A L \in 2..highest :
                   /\ out[at + L - 1].kind = "ClassDef"
                   /\ out[at + L - 1].fun = "singleton"
                   /\ KindIds(out[at + L - 1].kids) = ItemsAtLevels(exprs, 1, {L})
    /\ (Finished /\ input = S2Tree) => tree = S2Expected

C6_Witness ==
    /\ lastFlush.scope = "class"
    /\ MaxLevel(lastFlush.exprs) >= 2
    /\ \E k \in 1..Len(lastFlush.exprs) : lastFlush.exprs[k].staticLevel = 1
    /\ \E k \in 1..Len(lastFlush.exprs) : lastFlush.exprs[k].staticLevel = 2

\* ---------------------------------------------------------------------------
\* C7.  Every movable Send of the input occurs exactly once in the result; a
\* modifier Send still carries its MethodDef; a lifted sig that stands directly
\* before a MethodDef or modifier Send in the input stands directly before it, in
\* the same body, in the result.
\* ---------------------------------------------------------------------------

MovableSends(t) == {n \in NodesOfKind(t, "Send") : isMovable(n)}

isAnnotated(t) == t.kind = "MethodDef" \/ (t.kind = "Send" /\ isMethodModifier(t))

\* the pairs (sig, the item after it) standing side by side in the child list
PairsIn(kids) ==
    {<<kids[j].id, kids[j + 1].id>> :
        j \in {i \in 1..(Len(kids) - 1) : isSig(kids[i]) /\ isAnnotated(kids[i + 1])}}

SigPairs(t) == UNION {PairsIn(n.kids) : n \in Subtrees(t)}

\* the same pairs of the input, for the sigs that are lifted: those visited below
\* a MethodDef or movable Send of their class scope
RECURSIVE LiftedSigPairs(_, _)
LiftedSigPairs(t, hasFrame) ==
    LET framed == IF t.kind = "MethodDef" \/ (t.kind = "Send" /\ isMovable(t))
                  THEN TRUE
                  ELSE IF t.kind = "ClassDef" THEN FALSE
                  ELSE hasFrame
    IN (IF framed THEN PairsIn(t.kids) ELSE {})
       \cup UNION {LiftedSigPairs(t.kids[k], framed) : k \in 1..Len(t.kids)}

C7_MovableSendsKept ==
    Finished =>
        /\ \A s \in MovableSends(input) : CountNode(tree, "Send", s.id) = 1
        /\ \A s \in MovableSends(input) :
              isMethodModifier(s) =>
                  LET o == FindNode(tree, "Send", s.id) IN
                    isMethodModifier(o) /\ o.kids[1].id = s.kids[1].id
        /\ LiftedSigPairs(input, FALSE) \subseteq SigPairs(tree)

\* a lifted sig has followed its method into a singleton class
C7_Witness ==
    /\ Finished
    /\ \E c \in NodesOfKind(tree, "ClassDef") :
          /\ c.fun = "singleton"
          /\ Len(c.kids) >= 2
          /\ isSig(c.kids[1])
          /\ c.kids[2].kind = "MethodDef"

\* ---------------------------------------------------------------------------
\* C8.  Idempotence: Flatten::run of a result of Flatten::run returns it unchanged.
\* ---------------------------------------------------------------------------

C8_Idempotent == (pc = "done" /\ run = 2) => tree = input

\* the second run was given a tree in which the first had lifted something
C8_Witness ==
    /\ pc = "done"
    /\ run = 2
    /\ \E c \in NodesOfKind(tree, "ClassDef") : c.fun = "singleton" /\ Len(c.kids) >= 1
    /\ \E d \in NodesOfKind(tree, "MethodDef") : d.kids[1].kind = "InsSeq"

\* ---------------------------------------------------------------------------
\* C9.  Layout of a class body: the original statements keep their positions
\* (a MethodDef or movable Send met with an empty pending stack stays where it
\* is), the lifted items follow in the order their slots were reserved (the
\* pre-order of the input, that is increasing id), and a tree in which nothing is
\* nested in a MethodDef or movable Send is returned unchanged (scenario S3).
\* ---------------------------------------------------------------------------

\* some MethodDef or movable Send lies below a MethodDef or movable Send of its
\* own class scope
RECURSIVE NeedsLift(_, _)
NeedsLift(t, hasFrame) ==
    IF t.kind = "MethodDef"
    THEN hasFrame \/ NeedsLift(t.kids[1], TRUE)
    ELSE IF t.kind = "Send" /\ isMethodModifier(t)
    THEN hasFrame \/ NeedsLift(t.kids[1].kids[1], TRUE)
    ELSE IF t.kind = "Send" /\ t.fun = "sig"
    THEN hasFrame \/ \E k \in 1..Len(t.kids) : NeedsLift(t.kids[k], TRUE)
    ELSE IF t.kind = "ClassDef"
    THEN \E k \in 1..Len(t.kids) : NeedsLift(t.kids[k], FALSE)
    ELSE \E k \in 1..Len(t.kids) : NeedsLift(t.kids[k], hasFrame)

\* the child list holds lifted items by increasing id, then singleton classes
LiftedThenBlocks(s) ==
    \E n \in 0..Len(s) :
        /\ \A k \in 1..n : s[k].kind \in {"MethodDef", "Send"}
        /\ \A k \in 1..(n - 1) : s[k].id < s[k + 1].id
        /\ \A k \in (n + 1)..Len(s) : s[k].kind = "ClassDef" /\ s[k].fun = "singleton"

C9_ClassBodyLayoutKept ==
    Finished =>
        /\ \A c \in {n \in NodesOfKind(input, "ClassDef") : n.fun # "singleton"} :
              LET o == FindNode(tree, "ClassDef", c.id) IN
                /\ CountNode(tree, "ClassDef", c.id) = 1
                /\ Len(o.kids) >= Len(c.kids)
                /\ \A k \in 1..Len(c.kids) :
                      o.kids[k].kind = c.kids[k].kind /\ o.kids[k].id = c.kids[k].id
                /\ LiftedThenBlocks(SubSeq(o.kids, Len(c.kids) + 1, Len(o.kids)))
        /\ ~NeedsLift(input, FALSE) => tree = input
        /\ input = S3Tree => tree = S3Tree

C9_Witness ==
    /\ Finished
    /\ input.kind = "ClassDef"
    /\ Len(input.kids) >= 2
    /\ Len(tree.kids) >= Len(input.kids) + 2

\* ---------------------------------------------------------------------------
\* C10.  Program-root flush.  As claimed: nothing lifted, the walked tree; one
\* item and an EmptyTree, that item; otherwise an InsSeq of exactly the lifted
\* items with the walked tree as its result expression.
\* ---------------------------------------------------------------------------

C10_RootFlushWraps ==
    lastFlush.scope = "root" =>
        LET walked == lastFlush.rhs[1]
            exprs == lastFlush.exprs
            out == lastFlush.out[1]
        IN IF Len(exprs) = 0 THEN out = walked
           ELSE IF Len(exprs) = 1 /\ walked.kind = "EmptyTree" THEN out = exprs[1].expr
           ELSE out = InsSeq(movedExprs(exprs), walked)

\* C10 as amended: when the walked tree is itself an InsSeq the lifted items are
\* appended to its stats and its result expression is kept.
C10_RootFlushAppends ==
    lastFlush.scope = "root" =>
        LET walked == lastFlush.rhs[1]
            exprs == lastFlush.exprs
            out == lastFlush.out[1]
        IN IF Len(exprs) = 0 THEN out = walked
           ELSE IF Len(exprs) = 1 /\ walked.kind = "EmptyTree" THEN out = exprs[1].expr
           ELSE IF walked.kind = "InsSeq"
           THEN /\ out.kind = "InsSeq"
                /\ InsSeqStats(out) = InsSeqStats(walked) \o movedExprs(exprs)
                /\ InsSeqExpr(out) = InsSeqExpr(walked)
           ELSE out = InsSeq(movedExprs(exprs), walked)

C10_Witness ==
    /\ lastFlush.scope = "root"
    /\ lastFlush.rhs[1].kind = "InsSeq"
    /\ Len(lastFlush.exprs) >= 2
    /\ pc = "done"


\* ---------------------------------------------------------------------------
\* The language server: fast-path decision, merge, edit committer
\* ---------------------------------------------------------------------------

Range(s) == {s[i] : i \in 1..Len(s)}

\* findHash: the overriding hash of the file when there is one, else the stored one
findHash(id, gsHashes, overriddingStateHashes) ==
    IF id \notin DOMAIN overriddingStateHashes
    THEN gsHashes[id]
    ELSE overriddingStateHashes[id]

\* the loop of canTakeFastPath over updates.updatedFiles, from file i on
RECURSIVE fastPathLoop(_, _, _, _, _)
fastPathLoop_IgnoreOverride(gs, gsHashes, updates, overriddingStateHashes, i) ==
    IF i > Len(updates.updatedFiles) THEN TRUE
    ELSE LET fref == findFileByPath(gs, updates.updatedFiles[i].path) IN
         IF fref = 0 THEN FALSE
         ELSE IF updates.updatedFileHashes[i].hierarchyHash = HASH_STATE_INVALID THEN FALSE
         ELSE IF updates.updatedFileHashes[i].hierarchyHash # gsHashes[fref].hierarchyHash
         THEN FALSE
         ELSE fastPathLoop(gs, gsHashes, updates, overriddingStateHashes, i + 1)
fastPathLoop_WholeHash(gs, gsHashes, updates, overriddingStateHashes, i) ==
    IF i > Len(updates.updatedFiles) THEN TRUE
    ELSE LET fref == findFileByPath(gs, updates.updatedFiles[i].path) IN
         IF fref = 0 THEN FALSE
         ELSE IF updates.updatedFileHashes[i].hierarchyHash = HASH_STATE_INVALID THEN FALSE
         ELSE IF updates.updatedFileHashes[i]
                   # findHash(fref, gsHashes, overriddingStateHashes)
         THEN FALSE
         ELSE fastPathLoop(gs, gsHashes, updates, overriddingStateHashes, i + 1)
fastPathLoop_InvalidCompared(gs, gsHashes, updates, overriddingStateHashes, i) ==
    IF i > Len(updates.updatedFiles) THEN TRUE
    ELSE LET fref == findFileByPath(gs, updates.updatedFiles[i].path) IN
         IF fref = 0 THEN FALSE
         ELSE IF updates.updatedFileHashes[i].hierarchyHash
                   # findHash(fref, gsHashes, overriddingStateHashes).hierarchyHash
         THEN FALSE
         ELSE fastPathLoop(gs, gsHashes, updates, overriddingStateHashes, i + 1)
fastPathLoop(gs, gsHashes, updates, overriddingStateHashes, i) ==
    IF i > Len(updates.updatedFiles) THEN TRUE
    ELSE LET hashes == updates.updatedFileHashes
             f == updates.updatedFiles[i]
             fref == findFileByPath(gs, f.path)
         IN IF fref = 0
            THEN FALSE
            ELSE LET oldHash == findHash(fref, gsHashes, overriddingStateHashes) IN
                 IF hashes[i].hierarchyHash = HASH_STATE_INVALID
                 THEN FALSE
                 ELSE IF /\ hashes[i].hierarchyHash # HASH_STATE_INVALID
                         /\ hashes[i].hierarchyHash # oldHash.hierarchyHash
                 THEN FALSE
                 ELSE fastPathLoop(gs, gsHashes, updates, overriddingStateHashes, i + 1)

canTakeFastPath_IgnoreNewFiles(gs, cfg, gsHashes, updates, overriddingStateHashes) ==
    IF cfg.disableFastPath THEN FALSE
    ELSE \A i \in 1..Len(updates.updatedFiles) :
            \/ findFileByPath(gs, updates.updatedFiles[i].path) = 0
            \/ fastPathLoop(gs, gsHashes,
                            [updates EXCEPT !.updatedFiles = <<updates.updatedFiles[i]>>,
                                            !.updatedFileHashes = <<updates.updatedFileHashes[i]>>],
                            overriddingStateHashes, 1)
canTakeFastPath(gs, cfg, gsHashes, updates, overriddingStateHashes) ==
    IF cfg.disableFastPath THEN FALSE
    ELSE IF updates.hasNewFiles THEN FALSE
    ELSE fastPathLoop(gs, gsHashes, updates, overriddingStateHashes, 1)

\* the ENFORCEs canTakeFastPath evaluates before it returns
RECURSIVE fastPathLoopEnforce(_, _, _, _, _)
fastPathLoopEnforce(gs, gsHashes, updates, overriddingStateHashes, i) ==
    IF i > Len(updates.updatedFiles) THEN TRUE
    ELSE LET fref == findFileByPath(gs, updates.updatedFiles[i].path) IN
         IF fref = 0 THEN TRUE
         ELSE /\ findHash(fref, gsHashes, overriddingStateHashes).hierarchyHash
                    # HASH_STATE_NOT_COMPUTED
              /\ \/ ~fastPathLoop(gs, gsHashes,
                           [updates EXCEPT !.updatedFiles = <<updates.updatedFiles[i]>>,
                                           !.updatedFileHashes = <<updates.updatedFileHashes[i]>>],
                           overriddingStateHashes, 1)
                 \/ fastPathLoopEnforce(gs, gsHashes, updates, overriddingStateHashes, i + 1)

canTakeFastPathEnforce_NoNewFilesReturn(gs, cfg, gsHashes, updates, overriddingStateHashes) ==
    \/ cfg.disableFastPath
    \/ /\ Len(updates.updatedFiles) = Len(updates.updatedFileHashes)
       /\ fastPathLoopEnforce(gs, gsHashes, updates, overriddingStateHashes, 1)
canTakeFastPathEnforce(gs, cfg, gsHashes, updates, overriddingStateHashes) ==
    \/ cfg.disableFastPath
    \/ updates.hasNewFiles
    \/ /\ Len(updates.updatedFiles) = Len(updates.updatedFileHashes)
       /\ fastPathLoopEnforce(gs, gsHashes, updates, overriddingStateHashes, 1)

\* ast::ParsedFile
ParsedFile(ast, file) == [tree |-> ast, file |-> file]

\* the tree the indexer builds for a file body
parse(source) == <<"tree", source>>

\* ast.tree->deepCopy()
deepCopy(ast) == ast

\* the files of older whose path the merged update has not met yet
RECURSIVE olderLoop(_, _, _, _)
olderLoop_DropOlder(older, merged, encountered, i) == merged
olderLoop_HashByMergedIndex(older, merged, encountered, i) ==
    IF i > Len(older.updatedFiles) THEN merged
    ELSE LET f == older.updatedFiles[i] IN
         IF f.path \notin encountered
         THEN olderLoop(older,
                        [merged EXCEPT
                           !.updatedFiles = Append(@, f),
                           !.updatedFileHashes =
                               Append(@, older.updatedFileHashes[Len(merged.updatedFiles)]),
                           !.updatedFileIndexes =
                               Append(@, ParsedFile(deepCopy(older.updatedFileIndexes[i].tree),
                                                    older.updatedFileIndexes[i].file))],
                        encountered \cup {f.path}, i + 1)
         ELSE olderLoop(older, merged, encountered, i + 1)
olderLoop_KeepEncountered(older, merged, encountered, i) ==
    IF i > Len(older.updatedFiles) THEN merged
    ELSE olderLoop(older,
                   [merged EXCEPT
                      !.updatedFiles = Append(@, older.updatedFiles[i]),
                      !.updatedFileHashes = Append(@, older.updatedFileHashes[i]),
                      !.updatedFileIndexes =
                          Append(@, ParsedFile(deepCopy(older.updatedFileIndexes[i].tree),
                                               older.updatedFileIndexes[i].file))],
                   encountered, i + 1)
olderLoop(older, merged, encountered, i) ==
    IF i > Len(older.updatedFiles) THEN merged
    ELSE LET f == older.updatedFiles[i] IN
         IF f.path \notin encountered
         THEN olderLoop(older,
                        [merged EXCEPT
                           !.updatedFiles = Append(@, f),
                           !.updatedFileHashes = Append(@, older.updatedFileHashes[i]),
                           !.updatedFileIndexes =
                               Append(@, ParsedFile(deepCopy(older.updatedFileIndexes[i].tree),
                                                    older.updatedFileIndexes[i].file))],
                        encountered \cup {f.path}, i + 1)
         ELSE olderLoop(older, merged, encountered, i + 1)

\* combinedEvictions: newerEvictions, and the entries of olderEvictions for the
\* ids newerEvictions does not hold
combineEvictions_OlderWins(olderEvictions, newerEvictions) ==
    [id \in DOMAIN newerEvictions \cup DOMAIN olderEvictions |->
        IF id \in DOMAIN olderEvictions THEN olderEvictions[id] ELSE newerEvictions[id]]
combineEvictions(olderEvictions, newerEvictions) ==
    [id \in DOMAIN newerEvictions \cup DOMAIN olderEvictions |->
        IF id \in DOMAIN newerEvictions THEN newerEvictions[id] ELSE olderEvictions[id]]

\* LSPLoop::mergeUpdates, with the members it reads (initialGS, config,
\* globalStateHashes) as parameters
mergeUpdates(gs, cfg, gsHashes, older, olderEvictions, newer, newerEvictions) ==
    LET m0 == [LSPFileUpdates EXCEPT
                 !.epoch = newer.epoch,
                 !.editCount = older.editCount + newer.editCount,
                 !.hasNewFiles = older.hasNewFiles \/ newer.hasNewFiles,
                 !.updatedFiles = newer.updatedFiles,
                 !.updatedFileHashes = newer.updatedFileHashes,
                 !.updatedFileIndexes =
                     [i \in 1..Len(newer.updatedFileIndexes) |->
                         ParsedFile(deepCopy(newer.updatedFileIndexes[i].tree),
                                    newer.updatedFileIndexes[i].file)]]
        m1 == olderLoop(older, m0, {f.path : f \in Range(newer.updatedFiles)}, 1)
        combinedEvictions == combineEvictions(olderEvictions, newerEvictions)
    IN [m1 EXCEPT !.canTakeFastPath =
                      canTakeFastPath(gs, cfg, gsHashes, m1, combinedEvictions)]

\* ENFORCE(a.size() == b.size() == c.size()): C++ compares the bool a == b with c
chainedSizesEqual(a, b, c) == (IF Len(a) = Len(b) THEN 1 ELSE 0) = Len(c)

mergeUpdatesEnforce(gs, cfg, gsHashes, older, olderEvictions, newer, newerEvictions) ==
    /\ chainedSizesEqual(older.updatedFiles, older.updatedFileHashes, older.updatedFileIndexes)
    /\ chainedSizesEqual(newer.updatedFiles, newer.updatedFileHashes, newer.updatedFileIndexes)
    /\ canTakeFastPathEnforce(gs, cfg, gsHashes,
           mergeUpdates(gs, cfg, gsHashes, older, olderEvictions, newer, newerEvictions),
           combineEvictions(olderEvictions, newerEvictions))

\* core::GlobalState::replaceFile
replaceFile(gs, fref, file) == [gs EXCEPT !.files[fref] = file]

\* initialGS->enterFile(file): the file gets the next id
enterFile(gs, file) == [gs EXCEPT !.files = Append(@, file)]

\* globalStateHashes.resize(n)
resize(hashes, n) ==
    [i \in 1..n |-> IF i <= Len(hashes) THEN hashes[i] ELSE DefaultFileHash]

\* the loop of commitEdit that enters the files of the update into the snapshot,
\* from file i on; st = [gs, hashes, hasNewFiles, evictedHashes, frefs, enforce]
RECURSIVE commitFiles(_, _, _)
commitFiles_NoEviction(st, update, i) ==
    IF i > Len(update.updatedFiles) THEN st
    ELSE LET file == update.updatedFiles[i]
             found == findFileByPath(st.gs, file.path)
             gs2 == IF found # 0 THEN replaceFile(st.gs, found, file)
                    ELSE enterFile(st.gs, file)
             fref == IF found # 0 THEN found ELSE Len(gs2.files)
             h1 == IF found = 0 /\ fref > Len(st.hashes) THEN resize(st.hashes, fref)
                   ELSE st.hashes
         IN commitFiles([gs |-> gs2,
                         hashes |-> [h1 EXCEPT ![fref] = update.updatedFileHashes[i]],
                         hasNewFiles |-> st.hasNewFiles \/ found = 0,
                         evictedHashes |-> st.evictedHashes,
                         frefs |-> Append(st.frefs, fref),
                         enforce |-> st.enforce],
                        update, i + 1)
commitFiles_AlwaysEnter(st, update, i) ==
    IF i > Len(update.updatedFiles) THEN st
    ELSE LET file == update.updatedFiles[i]
             gs2 == enterFile(st.gs, file)
             fref == Len(gs2.files)
             h1 == IF fref > Len(st.hashes) THEN resize(st.hashes, fref) ELSE st.hashes
         IN commitFiles([gs |-> gs2,
                         hashes |-> [h1 EXCEPT ![fref] = update.updatedFileHashes[i]],
                         hasNewFiles |-> TRUE,
                         evictedHashes |->
                             [id \in DOMAIN st.evictedHashes \cup {fref} |->
                                 IF id = fref THEN h1[fref] ELSE st.evictedHashes[id]],
                         frefs |-> Append(st.frefs, fref),
                         enforce |-> st.enforce],
                        update, i + 1)
commitFiles(st, update, i) ==
    IF i > Len(update.updatedFiles) THEN st
    ELSE LET file == update.updatedFiles[i]
             found == findFileByPath(st.gs, file.path)
             gs2 == IF found # 0 THEN replaceFile(st.gs, found, file)
                    ELSE enterFile(st.gs, file)
             fref == IF found # 0 THEN found ELSE Len(gs2.files)
             h1 == IF found = 0 /\ fref > Len(st.hashes) THEN resize(st.hashes, fref)
                   ELSE st.hashes
         IN commitFiles([gs |-> gs2,
                         hashes |-> [h1 EXCEPT ![fref] = update.updatedFileHashes[i]],
                         hasNewFiles |-> st.hasNewFiles \/ found = 0,
                         evictedHashes |->
                             [id \in DOMAIN st.evictedHashes \cup {fref} |->
                                 IF id = fref THEN h1[fref] ELSE st.evictedHashes[id]],
                         frefs |-> Append(st.frefs, fref),
                         enforce |-> st.enforce /\ (found = 0 \/ found <= Len(st.hashes))],
                        update, i + 1)

\* pipeline::index: one parsed file per file ref, sorted by file id
index(gs, frefs) ==
    LET ids == Range(frefs) IN
      [k \in 1..Cardinality(ids) |->
          LET id == CHOOSE id \in ids : Cardinality({j \in ids : j < id}) = k - 1
          IN ParsedFile(parse(gs.files[id].source), id)]

\* update.updatedFileIndexes[fileToPos[ast.file.id()]] = move(ast)
reorderTrees_IndexerOrder(trees, frefs) == trees
reorderTrees(trees, frefs) ==
    LET fileToPos == [id \in Range(frefs) |->
                         CHOOSE i \in 1..Len(frefs) :
                             frefs[i] = id /\ \A j \in (i + 1)..Len(frefs) : frefs[j] # id]
    IN [i \in 1..Len(trees) |-> CHOOSE ast \in Range(trees) : fileToPos[ast.file] = i]

\* commitEdit up to the indexed update (lines 195-247): the update, the snapshot
\* and hash vector it leaves, and the hashes it evicted
commitEditUpdate(gs, cfg, gsHashes, edit) ==
    LET u0 == [LSPFileUpdates EXCEPT
                 !.epoch = edit.epoch,
                 !.editCount = edit.mergeCount + 1,
                 !.updatedFileHashes = computeStateHashes(edit.updates),
                 !.updatedFiles = edit.updates]
        u1 == [u0 EXCEPT !.canTakeFastPath = canTakeFastPath(gs, cfg, gsHashes, u0, NoHashes)]
        st == commitFiles([gs |-> gs, hashes |-> gsHashes, hasNewFiles |-> FALSE,
                           evictedHashes |-> NoHashes, frefs |-> <<>>, enforce |-> TRUE],
                          u1, 1)
        u2 == [u1 EXCEPT !.hasNewFiles = st.hasNewFiles,
                         !.updatedFileIndexes = reorderTrees(index(st.gs, st.frefs), st.frefs)]
    IN [update |-> u2, gs |-> st.gs, hashes |-> st.hashes,
        evictedHashes |-> st.evictedHashes,
        enforce |-> /\ canTakeFastPathEnforce(gs, cfg, gsHashes, u0, NoHashes)
                    /\ st.enforce
                    /\ Cardinality(Range(st.frefs)) = Len(st.frefs)]

\* ---------------------------------------------------------------------------
\* The language server: coordinator thread and typechecker thread
\* ---------------------------------------------------------------------------

\* the file bodies the client sends: every kind of body for x.rb, which the
\* snapshot holds from the start, and two bodies with different hierarchies
\* for y.rb
FileSet ==
    {File("x.rb", source) : source \in Sources \ {"A1"}}
        \cup {File("y.rb", source) : source \in {"A2", "B"}}

\* the file lists of a workspace edit: no path twice
EditFiles ==
    {fs \in UNION {[1..n -> FileSet] : n \in 1..MaxEditFiles} :
        \A i, j \in 1..Len(fs) : fs[i].path = fs[j].path => i = j}

\* the preprocessor folds the edits waiting in its queue into one: an edit of n
\* files stands for n edits of one file
mergeCount(updates) == Len(updates) - 1

SorbetWorkspaceEditParams(epoch, count, updates) ==
    [epoch |-> epoch, mergeCount |-> count, updates |-> updates]

\* a task handed to the typechecker thread
Task(update, sync) == [kind |-> "edit", update |-> update, sync |-> sync]

\* GlobalState::tryCancelSlowPath: a single attempt, TRUE when the running slow
\* path has not reached its commit point and is now marked canceled
tryCancelSlowPath_AfterCommit(running, newEpoch) == TRUE
tryCancelSlowPath(running, newEpoch) == running # <<>>

\* if (updates->canTakeFastPath): fast path, blocking; else slow path, non-blocking
runsSync_Never(update) == FALSE
runsSync(update) == update.canTakeFastPath

\* what a task finds when it reads the GlobalState an update carries: the copy
\* itself, or the coordinator's snapshot as it is at that moment if the update
\* was handed the snapshot and not a copy
SharedGS == [shared |-> TRUE]
readUpdatedGS(update, shared) ==
    IF "shared" \in DOMAIN update.updatedGS[1] THEN shared ELSE update.updatedGS[1]

\* deepCopy initialGS if needed: a slow-path update carries a copy of the snapshot
attachUpdatedGS_Always(update, gs) == [update EXCEPT !.updatedGS = <<gs>>]
attachUpdatedGS_NoCopy(update, gs) ==
    IF ~update.canTakeFastPath THEN [update EXCEPT !.updatedGS = <<SharedGS>>] ELSE update
attachUpdatedGS(update, gs) ==
    IF ~update.canTakeFastPath THEN [update EXCEPT !.updatedGS = <<gs>>] ELSE update

\* the end of commitEdit (lines 262-280) and the dispatch of the update it
\* returns (processRequestInternal, lines 324-350); running and canceled are the
\* epoch state cancelation has left, obs describes the cancelation step
dispatch(update, evictedHashes, gs, running, canceled, obs) ==
    LET slow == ~update.canTakeFastPath
        out == attachUpdatedGS(update, gs)
    IN /\ lastSlowPathUpdate' =
              IF slow
              THEN [lastSlowPathUpdate EXCEPT
                      !.epoch = out.epoch,
                      !.canTakeFastPath = out.canTakeFastPath,
                      !.editCount = out.editCount,
                      !.hasNewFiles = out.hasNewFiles,
                      !.updatedFiles = out.updatedFiles,
                      !.updatedFileHashes = out.updatedFileHashes,
                      !.updatedFileIndexes =
                          [i \in 1..Len(out.updatedFileIndexes) |->
                              ParsedFile(deepCopy(out.updatedFileIndexes[i].tree),
                                         out.updatedFileIndexes[i].file)]]
              ELSE lastSlowPathUpdate
       /\ lastSlowPathEvictedStateHashes' =
              IF slow THEN evictedHashes ELSE lastSlowPathEvictedStateHashes
       /\ canceledEpochs' = canceled
       /\ IF runsSync(out)
          THEN \* typecheckerCoord.syncRun: the coordinator blocks
               /\ runningSlowPath' = running
               /\ tasks' = Append(tasks, Task(out, TRUE))
               /\ coord' = [CoordIdle EXCEPT !.pc = "sync"]
          ELSE \* initialGS->startCommitEpoch(updates->epoch), then asyncRun
               /\ runningSlowPath' = <<out.epoch>>
               /\ tasks' = Append(tasks, Task(out, FALSE))
               /\ coord' = CoordIdle
       /\ returned' = [epoch |-> out.epoch, update |-> out, sync |-> runsSync(out),
                       startCommitEpoch |-> ~runsSync(out),
                       tasksBefore |-> tasks, tcLogBefore |-> tcLog] @@ obs

\* the coordinator takes a sorbet/workspaceEdit notification and runs commitEdit
\* up to the merge (lines 194-254); when no cancelable slow path is running it
\* goes on to the end of commitEdit and dispatches.  lastCommit keeps what this
\* call computed, the update and evictions of the call before it, what
\* mergeUpdates makes of the two, the number of client edits committed so far,
\* and the snapshot each commit has left (snapshots[e] for epoch e)
commitEdit ==
    /\ coord.pc = "idle"
    /\ nextEpoch <= MaxEpoch
    /\ \E updates \in EditFiles :
         LET edit == SorbetWorkspaceEditParams(nextEpoch, mergeCount(updates), updates)
             c == commitEditUpdate(initialGS, config, globalStateHashes, edit)
             merged == mergeUpdates(c.gs, config, c.hashes, lastSlowPathUpdate,
                                    lastSlowPathEvictedStateHashes, c.update, c.evictedHashes)
             previous == IF lastCommit.called
                         THEN [called |-> TRUE, update |-> lastCommit.update,
                               evictedHashes |-> lastCommit.evictedHashes]
                         ELSE NoCommit
         IN /\ initialGS' = c.gs
            /\ globalStateHashes' = c.hashes
            /\ nextEpoch' = nextEpoch + 1
            /\ lastCommit' = [called |-> TRUE, edit |-> edit,
                              gs |-> initialGS, hashes |-> globalStateHashes,
                              update |-> c.update, evictedHashes |-> c.evictedHashes,
                              older |-> lastSlowPathUpdate,
                              olderEvictions |-> lastSlowPathEvictedStateHashes,
                              runningSlowPath |-> runningSlowPath,
                              merged |-> merged,
                              previous |-> previous,
                              editCount |-> (IF lastCommit.called THEN lastCommit.editCount
                                             ELSE 0) + edit.mergeCount + 1,
                              snapshots |-> (IF lastCommit.called THEN lastCommit.snapshots
                                             ELSE <<>>) \o <<c.gs>>,
                              mergedWithPrevious |->
                                  IF previous.called
                                  THEN mergeUpdates(c.gs, config, c.hashes,
                                                    previous.update, previous.evictedHashes,
                                                    c.update, c.evictedHashes)
                                  ELSE LSPFileUpdates]
            /\ IF runningSlowPath # <<>>
               THEN /\ coord' = [pc |-> "cancel", update |-> c.update, merged |-> merged,
                                 evictedHashes |-> c.evictedHashes]
                    /\ lspEnforce' =
                          (/\ lspEnforce
                           /\ c.enforce
                           /\ runningSlowPath[1] = lastSlowPathUpdate.epoch
                           /\ mergeUpdatesEnforce(c.gs, config, c.hashes, lastSlowPathUpdate,
                                                  lastSlowPathEvictedStateHashes,
                                                  c.update, c.evictedHashes))
                    /\ UNCHANGED <<lastSlowPathUpdate, lastSlowPathEvictedStateHashes,
                                   runningSlowPath, canceledEpochs, tasks, returned>>
               ELSE /\ lspEnforce' = (lspEnforce /\ c.enforce)
                    /\ dispatch(c.update, c.evictedHashes, c.gs, runningSlowPath,
                                canceledEpochs,
                                [slowPathRunning |-> FALSE, attempted |-> FALSE,
                                 canceled |-> FALSE, plain |-> c.update,
                                 merged |-> LSPFileUpdates])
    /\ UNCHANGED <<config, tcGS, tcLog>>
    /\ UNCHANGED <<vars, reqVars, hashVars, flatVars>>

\* cancel if old + new takes the fast path, or if the new update will take the
\* slow path anyway
shouldCancel_OnlyWhenFast(merged, update) == merged.canTakeFastPath
shouldCancel(merged, update) == merged.canTakeFastPath \/ ~update.canTakeFastPath

\* commitEdit from the cancelation test on (lines 256-280), then the dispatch
tryCancel ==
    /\ coord.pc = "cancel"
    /\ LET attempted == shouldCancel(coord.merged, coord.update)
           ok == attempted /\ tryCancelSlowPath(runningSlowPath, coord.merged.epoch)
       IN dispatch(IF ok THEN coord.merged ELSE coord.update,
                   coord.evictedHashes, initialGS,
                   IF ok THEN <<>> ELSE runningSlowPath,
                   IF ok THEN canceledEpochs \cup {lastCommit.runningSlowPath[1]}
                   ELSE canceledEpochs,
                   [slowPathRunning |-> TRUE, attempted |-> attempted, canceled |-> ok,
                    plain |-> coord.update, merged |-> coord.merged])
    /\ UNCHANGED <<config, initialGS, globalStateHashes, nextEpoch, tcGS, tcLog,
                   lastCommit, lspEnforce>>
    /\ UNCHANGED <<vars, reqVars, hashVars, flatVars>>

\* LSPTypechecker::typecheck of a fast-path update: the files of the update
\* replace the files of the typechecker's state
RECURSIVE runFastPath(_, _, _)
runFastPath(gs, update, i) ==
    IF i > Len(update.updatedFiles) THEN gs
    ELSE LET file == update.updatedFiles[i]
             fref == findFileByPath(gs, file.path)
         IN runFastPath(IF fref # 0 THEN replaceFile(gs, fref, file) ELSE enterFile(gs, file),
                        update, i + 1)

\* the typechecker thread runs the fast-path task syncRun is blocked on
typecheckFastPath ==
    /\ tasks # <<>>
    /\ Head(tasks).kind = "edit"
    /\ Head(tasks).sync
    /\ tcGS' = runFastPath(tcGS, Head(tasks).update, 1)
    /\ tcLog' = Append(tcLog, [epoch |-> Head(tasks).update.epoch,
                               editCount |-> Head(tasks).update.editCount,
                               sync |-> TRUE, committed |-> TRUE,
                               before |-> tcGS, gs |-> tcGS'])
    /\ tasks' = Tail(tasks)
    /\ coord' = CoordIdle
    /\ UNCHANGED <<config, initialGS, globalStateHashes, lastSlowPathUpdate,
                   lastSlowPathEvictedStateHashes, runningSlowPath, canceledEpochs,
                   nextEpoch, lastCommit, returned, lspEnforce>>
    /\ UNCHANGED <<vars, reqVars, hashVars, flatVars>>

\* the typechecker thread brings a slow-path task to its commit point: a task
\* marked canceled commits nothing, any other installs its updatedGS; tcLog
\* keeps, per task run, whether it committed and the state it left
typecheckSlowPath ==
    /\ tasks # <<>>
    /\ Head(tasks).kind = "edit"
    /\ ~Head(tasks).sync
    /\ LET update == Head(tasks).update
           canceled == update.epoch \in canceledEpochs
       IN /\ tcGS' = IF canceled THEN tcGS ELSE readUpdatedGS(update, initialGS)
          /\ tcLog' = Append(tcLog, [epoch |-> update.epoch,
                                     editCount |-> update.editCount,
                                     sync |-> FALSE, committed |-> ~canceled,
                                     before |-> tcGS, gs |-> tcGS'])
          /\ runningSlowPath' = IF canceled THEN runningSlowPath ELSE <<>>
    /\ tasks' = Tail(tasks)
    /\ UNCHANGED <<config, initialGS, globalStateHashes, lastSlowPathUpdate,
                   lastSlowPathEvictedStateHashes, canceledEpochs, nextEpoch, coord,
                   lastCommit, returned, lspEnforce>>
    /\ UNCHANGED <<vars, reqVars, hashVars, flatVars>>

\* the flattener is not running
FlattenIdle ==
    /\ input = EmptyTree
    /\ run = 2
    /\ pc = "done"
    /\ walk = <<>>
    /\ tree = EmptyTree
    /\ methodScopes = newMethodSet(<<>>)
    /\ skipMethods = {}
    /\ enforce = TRUE
    /\ lastFlush = NoFlush

InitLSP ==
    /\ FlattenIdle
    /\ ReqInit
    /\ FlatfilesIdle
    /\ HashIdle
    /\ \E gs \in InitialSnapshots, disableFastPath \in BOOLEAN :
         LSPLoopInit(gs, disableFastPath)

NextLSP ==
    \/ commitEdit
    \/ tryCancel
    \/ typecheckFastPath
    \/ typecheckSlowPath

SpecLSP == InitLSP /\ [][NextLSP]_allVars

\* ---------------------------------------------------------------------------
\* computeStateHashes: the caller, the work queue, the workers, the result queue
\* ---------------------------------------------------------------------------

MaxHashFiles == 3
MaxWorkers == 2

\* the entries of the vector handed to computeStateHashes: files with and
\* without a syntax error, and the null entry of a file id that holds no file
HashFileSet == {NullFile, File("x.rb", "A1"), File("y.rb", "bad")}

HashInputs == UNION {[1..n -> HashFileSet] : n \in 0..MaxHashFiles}

\* one pass of the worker's loop body on the index it took
hashJob_NoNullCheck(fs, job) == <<job, computeFileHash(fs[job])>>
hashJob(fs, job) ==
    IF fs[job] = NullFile THEN <<job, DefaultFileHash>>
    ELSE <<job, computeFileHash(fs[job])>>

\* for (auto &a : threadResult) res[a.first] = move(a.second)
RECURSIVE storeResults(_, _, _)
storeResults(vec, threadResult, k) ==
    IF k > Len(threadResult) THEN vec
    ELSE storeResults([vec EXCEPT ![threadResult[k][1]] = threadResult[k][2]],
                      threadResult, k + 1)

\* computeStateHashes is called with a vector of files, on a pool of workers; a
\* pool without threads runs the job on the calling thread, which is the
\* schedule of one worker that runs to its end before the caller drains
InitHash ==
    /\ FlattenIdle
    /\ LSPLoopInit(GlobalState(<<File("x.rb", "A1")>>), FALSE)
    /\ ReqInit
    /\ FlatfilesIdle
    /\ hashFiles \in HashInputs
    /\ hashPc = "start"
    /\ \E n \in 1..MaxWorkers :
         hashWorkers = [w \in 1..n |->
                           [pc |-> "wait", threadResult |-> <<>>, processedByThread |-> 0]]
    /\ fileq = <<>>
    /\ resultq = [items |-> <<>>, elementsLeftToPush |-> 0]
    /\ res = <<>>
    /\ popped = <<>>

\* the caller sizes res, fills fileq with every index, creates resultq with
\* room for one result per file, and hands the job to the pool (lines 15-29)
hashStart ==
    /\ hashPc = "start"
    /\ res' = [i \in 1..Len(hashFiles) |-> DefaultFileHash]
    /\ fileq' = [i \in 1..Len(hashFiles) |-> i]
    /\ resultq' = [items |-> <<>>, elementsLeftToPush |-> Len(hashFiles)]
    /\ hashWorkers' = [w \in DOMAIN hashWorkers |-> [hashWorkers[w] EXCEPT !.pc = "pop"]]
    /\ popped' = [i \in 1..Len(hashFiles) |-> {}]
    /\ hashPc' = "drain"
    /\ UNCHANGED hashFiles
    /\ UNCHANGED <<vars, lspVars, reqVars, flatVars>>

\* fileq->try_pop(job) gives worker w an index: it hashes the file (lines 34-44)
workerPop(w) ==
    /\ w \in DOMAIN hashWorkers
    /\ hashWorkers[w].pc = "pop"
    /\ fileq # <<>>
    /\ LET job == Head(fileq)
       IN /\ hashWorkers' =
                [hashWorkers EXCEPT
                   ![w].processedByThread = @ + 1,
                   ![w].threadResult = Append(@, hashJob(hashFiles, job))]
          /\ popped' = [popped EXCEPT ![job] = @ \cup {w}]
    /\ fileq' = Tail(fileq)
    /\ UNCHANGED <<hashFiles, hashPc, resultq, res>>
    /\ UNCHANGED <<vars, lspVars, reqVars, flatVars>>

\* try_pop reports the work queue done: worker w leaves the loop and pushes its
\* batch, counted as processedByThread results, if it processed any file
\* (lines 34, 48-50)
workerPush(w) ==
    /\ w \in DOMAIN hashWorkers
    /\ hashWorkers[w].pc = "pop"
    /\ fileq = <<>>
    /\ resultq' =
          IF hashWorkers[w].processedByThread > 0
          THEN [items |-> Append(resultq.items, hashWorkers[w].threadResult),
                elementsLeftToPush |->
                    resultq.elementsLeftToPush - hashWorkers[w].processedByThread]
          ELSE resultq
    /\ hashWorkers' = [hashWorkers EXCEPT ![w].pc = "done"]
    /\ UNCHANGED <<hashFiles, hashPc, fileq, res, popped>>
    /\ UNCHANGED <<vars, lspVars, reqVars, flatVars>>

\* resultq->wait_pop_timed gives the caller a batch: it stores the hashes
\* (lines 55-61); a wait that times out with nothing changes nothing
drainPop ==
    /\ hashPc = "drain"
    /\ resultq.items # <<>>
    /\ res' = storeResults(res, Head(resultq.items), 1)
    /\ resultq' = [resultq EXCEPT !.items = Tail(@)]
    /\ UNCHANGED <<hashFiles, hashPc, hashWorkers, fileq, popped>>
    /\ UNCHANGED <<vars, lspVars, reqVars, flatVars>>

\* wait_pop_timed reports the result queue done, empty with every counted
\* result pushed: the caller returns res (lines 55, 64)
drainDone ==
    /\ hashPc = "drain"
    /\ resultq.items = <<>>
    /\ resultq.elementsLeftToPush = 0
    /\ hashPc' = "returned"
    /\ UNCHANGED <<hashFiles, hashWorkers, fileq, resultq, res, popped>>
    /\ UNCHANGED <<vars, lspVars, reqVars, flatVars>>

NextHash ==
    \/ hashStart
    \/ \E w \in 1..MaxWorkers : workerPop(w)
    \/ \E w \in 1..MaxWorkers : workerPush(w)
    \/ drainPop
    \/ drainDone

\* every thread that can take a step eventually takes one
SpecHash ==
    /\ InitHash
    /\ [][NextHash]_allVars
    /\ WF_allVars(hashStart \/ drainPop \/ drainDone)
    /\ \A w \in 1..MaxWorkers : WF_allVars(workerPop(w) \/ workerPush(w))

\* ---------------------------------------------------------------------------
\* processRequestInternal: requests, notifications and the fence
\* ---------------------------------------------------------------------------

MaxMessages == 2

\* LSPErrorCodes
MethodNotFound == -32601
InvalidParams == -32602
RequestCancelled == -32800

\* the requests answered by a handler run on the typechecker thread
QueryMethods ==
    {"TextDocumentDocumentHighlight", "TextDocumentDocumentSymbol", "WorkspaceSymbol",
     "TextDocumentDefinition", "TextDocumentTypeDefinition", "TextDocumentHover",
     "TextDocumentCompletion", "TextDocumentCodeAction", "TextDocumentSignatureHelp",
     "TextDocumentReferences"}

\* LSPMessage: a request has an id, a notification has none; canceled is set by
\* the preprocessor
LSPMessage(type, id, method, canceled, params) ==
    [type |-> type, id |-> id, method |-> method, canceled |-> canceled, params |-> params]

\* the messages the preprocessor hands over as the n-th of the session, other
\* than workspace edits: requests (their id is n) of every kind of branch,
\* canceled or not, notifications, and a message that is neither
Messages(n) ==
    {LSPMessage("request", <<n>>, method, canceled, "params") :
        method \in {"Initialize", "TextDocumentHover", "Shutdown", "Exit"},
        canceled \in BOOLEAN}
    \cup {LSPMessage("request", <<n>>, "SorbetReadFile", canceled, [uri |-> uri]) :
            uri \in {"x.rb", "z.rb"}, canceled \in BOOLEAN}
    \cup {LSPMessage("request", <<n>>, "SorbetError", canceled,
                     [code |-> MethodNotFound, message |-> "Unknown method"]) :
            canceled \in BOOLEAN}
    \cup {LSPMessage("notification", <<>>, "Exit", FALSE, "params"),
          LSPMessage("notification", <<>>, "SorbetError", FALSE,
                     [code |-> MethodNotFound, message |-> "Unknown method"]),
          LSPMessage("notification", <<>>, "SorbetFence", FALSE, 1),
          LSPMessage("notification", <<>>, "SorbetFence", FALSE, 2),
          LSPMessage("response", <<n>>, "Shutdown", FALSE, "params")}

ResponseMessage_NoId(id, method) ==
    [jsonrpc |-> "2.0", id |-> <<>>, requestMethod |-> method, result |-> <<>>, error |-> <<>>]
ResponseMessage(id, method) ==
    [jsonrpc |-> "2.0", id |-> id, requestMethod |-> method, result |-> <<>>, error |-> <<>>]

ResponseError(code, message) == [code |-> code, message |-> message]

NotificationMessage(method, params) ==
    [jsonrpc |-> "2.0", id |-> <<>>, method |-> method, params |-> params]

\* the branch of processRequestInternal a message takes
dispatchBranch_IgnoreCanceled(msg) ==
    IF msg.type = "request"
    THEN (IF msg.method = "Initialize" THEN "initialize"
          ELSE IF msg.method \in QueryMethods THEN "query"
          ELSE IF msg.method = "SorbetReadFile" THEN "readFile"
          ELSE IF msg.method = "Shutdown" THEN "shutdown"
          ELSE IF msg.method = "SorbetError" THEN "error"
          ELSE "notRequest")
    ELSE "none"
dispatchBranch(msg) ==
    IF msg.type = "notification"
    THEN (IF msg.method = "SorbetWorkspaceEdit" THEN "workspaceEdit"
          ELSE IF msg.method = "Initialized" THEN "initialized"
          ELSE IF msg.method = "Exit" THEN "exit"
          ELSE IF msg.method = "SorbetError" THEN "logged"
          ELSE IF msg.method = "SorbetFence" THEN "fence"
          ELSE "none")
    ELSE IF msg.type = "request"
    THEN (IF msg.canceled THEN "canceled"
          ELSE IF msg.method = "Initialize" THEN "initialize"
          ELSE IF msg.method \in QueryMethods THEN "query"
          ELSE IF msg.method = "SorbetReadFile" THEN "readFile"
          ELSE IF msg.method = "Shutdown" THEN "shutdown"
          ELSE IF msg.method = "SorbetError" THEN "error"
          ELSE "notRequest")
    ELSE "none"

\* the branches that hand a lambda to typecheckerCoord.syncRun
usesSyncRun_FenceInline(branch) == branch \in {"query", "readFile"}
usesSyncRun(branch) == branch \in {"fence", "query", "readFile"}

\* what a branch writes to config->output; gs is the state the typechecker
\* holds when the lambda of a syncRun branch runs
reply(msg, branch, gs) ==
    LET id == msg.id
        response == ResponseMessage(id, msg.method)
    IN CASE branch = "canceled" ->
              <<[response EXCEPT
                   !.error = <<ResponseError(RequestCancelled, "Request was canceled")>>]>>
         [] branch = "initialize" ->
              <<[response EXCEPT
                   !.result = <<[textDocumentSync |-> "Full",
                                 completionProvider |-> [triggerCharacters |-> <<".">>]]>>]>>
         [] branch = "query" ->
              <<[response EXCEPT !.result = <<"handled">>]>>
         [] branch = "readFile" ->
              IF findFileByPath(gs, msg.params.uri) # 0
              THEN <<[response EXCEPT
                        !.result =
                            <<[uri |-> msg.params.uri, languageId |-> "ruby",
                               text |-> gs.files[findFileByPath(gs, msg.params.uri)].source]>>]>>
              ELSE <<[response EXCEPT
                        !.error = <<ResponseError(InvalidParams, "Did not find file at uri")>>]>>
         [] branch = "shutdown" ->
              <<[response EXCEPT !.result = <<"null">>]>>
         [] branch = "error" ->
              <<[response EXCEPT
                   !.error = <<ResponseError(msg.params.code, msg.params.message)>>]>>
         [] branch = "notRequest" ->
              <<[response EXCEPT
                   !.requestMethod = "SorbetError",
                   !.error = <<ResponseError(MethodNotFound,
                                             "Notification method sent as request")>>]>>
         [] branch = "fence" ->
              <<NotificationMessage("SorbetFence", msg.params)>>
         [] OTHER -> <<>>

\* the coordinator takes the next message and runs processRequestInternal on it:
\* a branch that needs the typechecker submits its lambda with syncRun and
\* blocks, any other branch writes what it has to write and returns.  msgLog
\* keeps the message, its branch, and the queue, the output and the runs of the
\* typechecker as they were when the message was taken
processRequestInternal ==
    /\ coord.pc = "idle"
    /\ Len(msgLog) < MaxMessages
    /\ \E msg \in Messages(Len(msgLog) + 1) :
         LET branch == dispatchBranch(msg)
         IN /\ msgLog' = Append(msgLog, [msg |-> msg, branch |-> branch,
                                         submitted |-> usesSyncRun(branch),
                                         tasksBefore |-> tasks,
                                         outputBefore |-> Len(output)])
            /\ IF usesSyncRun(branch)
               THEN /\ tasks' = Append(tasks, [kind |-> "request", msg |-> msg,
                                               branch |-> branch, sync |-> TRUE])
                    /\ coord' = [CoordIdle EXCEPT !.pc = "sync"]
                    /\ output' = output
               ELSE /\ output' = output \o reply(msg, branch, initialGS)
                    /\ UNCHANGED <<tasks, coord>>
    /\ UNCHANGED <<config, initialGS, globalStateHashes, lastSlowPathUpdate,
                   lastSlowPathEvictedStateHashes, runningSlowPath, canceledEpochs,
                   nextEpoch, tcGS, tcLog, lastCommit, returned, lspEnforce>>
    /\ UNCHANGED <<vars, hashVars, flatVars>>

\* the typechecker thread runs the lambda of a request or of a fence; syncRun
\* returns and the coordinator goes on
runRequest ==
    /\ tasks # <<>>
    /\ Head(tasks).kind = "request"
    /\ output' = output \o reply(Head(tasks).msg, Head(tasks).branch, tcGS)
    /\ tasks' = Tail(tasks)
    /\ coord' = CoordIdle
    /\ UNCHANGED msgLog
    /\ UNCHANGED <<config, initialGS, globalStateHashes, lastSlowPathUpdate,
                   lastSlowPathEvictedStateHashes, runningSlowPath, canceledEpochs,
                   nextEpoch, tcGS, tcLog, lastCommit, returned, lspEnforce>>
    /\ UNCHANGED <<vars, hashVars, flatVars>>

\* a server that is initialized, with one workspace edit still to come from
\* the client
InitReq ==
    /\ FlattenIdle
    /\ HashIdle
    /\ ReqInit
    /\ FlatfilesIdle
    /\ config = [disableFastPath |-> FALSE]
    /\ initialGS = GlobalState(<<File("x.rb", "A1")>>)
    /\ globalStateHashes = computeStateHashes(initialGS.files)
    /\ lastSlowPathUpdate = LSPFileUpdates
    /\ lastSlowPathEvictedStateHashes = NoHashes
    /\ runningSlowPath = <<>>
    /\ canceledEpochs = {}
    /\ nextEpoch = MaxEpoch
    /\ coord = CoordIdle
    /\ tasks = <<>>
    /\ tcGS = initialGS
    /\ tcLog = <<>>
    /\ lastCommit = NoCommit
    /\ returned = NoReturn
    /\ lspEnforce = TRUE

\* with one edit no slow path is running when commitEdit is called, so the
\* cancelation step never comes up
NextReq ==
    \/ processRequestInternal
    \/ runRequest
    \/ commitEdit
    \/ typecheckFastPath
    \/ typecheckSlowPath

SpecReq == InitReq /\ [][NextReq]_allVars

\* ---------------------------------------------------------------------------
\* The Flatfiles rewriter (src/rewriter/Flatfiles.cc)
\* ---------------------------------------------------------------------------

MaxStats == 2

\* ast::Literal holding a symbol, ast::Literal holding a string
SymbolLit(value) == [node |-> "Literal", isSymbol |-> TRUE, value |-> value]
StringLit(value) == [node |-> "Literal", isSymbol |-> FALSE, value |-> value]

\* ast::Send as Flatfiles::run reads it: fun, recv (self or not), args
FlatSend(fun, recvSelf, args) ==
    [node |-> "Send", fun |-> fun, recvSelf |-> recvSelf, args |-> args]

\* a statement that is not a Send
OtherStat == [node |-> "MethodDef"]

\* the argument lists of the Sends of the inputs
ArgLists ==
    {<<>>, <<SymbolLit("a")>>, <<StringLit("s")>>,
     <<StringLit("s"), SymbolLit("b")>>, <<SymbolLit("a"), SymbolLit("b")>>}

\* the statements of the class bodies of the inputs
FlatStats ==
    {FlatSend(fun, recvSelf, args) :
        fun \in {"from", "field", "pattern"}, recvSelf \in BOOLEAN, args \in ArgLists}
    \cup {FlatSend("declareFlatfile", TRUE, <<>>),
          FlatSend("foo", TRUE, <<SymbolLit("a")>>),
          OtherStat}

\* the ClassDefs Flatfiles::run is called on
FlatInputs ==
    {FlatClassDef(kind, ancestors, rhs) :
        kind \in {"Class", "Module"},
        ancestors \in {<<>>, <<"Base">>},
        rhs \in UNION {[1..n -> FlatStats] : n \in 0..MaxStats}}

\* mutant: only the first argument is looked at
getFieldName_FirstOnly(send) ==
    IF send.args[1].node = "Literal" /\ send.args[1].isSymbol
    THEN <<send.args[1].value>>
    ELSE <<>>

\* optional<NameRef> getFieldName: <<name>> or <<>>; it is called with at least
\* one argument
getFieldName(send) ==
    IF send.args[1].node = "Literal" /\ send.args[1].isSymbol
    THEN <<send.args[1].value>>
    ELSE IF Len(send.args) >= 2 /\ send.args[2].node = "Literal" /\ send.args[2].isSymbol
    THEN <<send.args[2].value>>
    ELSE <<>>

\* NameRef::addEq
addEq(n) == n \o "="

\* ast::MK::Sig0(loc, MK::Untyped(loc))
Sig0(ret) == [node |-> "Send", fun |-> "sig", params |-> <<>>, ret |-> ret]

\* ast::MK::Method0(loc, loc, name, MK::Nil(loc))
Method0(n, body) == [node |-> "MethodDef", name |-> n, args |-> <<>>, body |-> body]

\* ast::MK::Sig1(loc, MK::Symbol(loc, arg0), MK::Untyped(loc), MK::Untyped(loc))
Sig1(arg, argType, ret) ==
    [node |-> "Send", fun |-> "sig", params |-> << <<arg, argType>> >>, ret |-> ret]

\* ast::MK::Method1(loc, loc, setName, move(var), MK::Nil(loc))
Method1(n, var, body) == [node |-> "MethodDef", name |-> n, args |-> <<var>>, body |-> body]

\* the first loop: some statement of the body is a Send of declareFlatfile
isFlatfile(rhs) ==
    \E i \in 1..Len(rhs) : rhs[i].node = "Send" /\ rhs[i].fun = "declareFlatfile"

\* mutant: the receiver is not looked at
skipsStat_AnyReceiver(stat) ==
    \/ stat.node # "Send"
    \/ stat.fun \notin {"from", "field", "pattern"}
    \/ Len(stat.args) < 1

\* the statement is not a Send, or the test of line 50 continues
skipsStat(stat) ==
    \/ stat.node # "Send"
    \/ stat.fun \notin {"from", "field", "pattern"}
    \/ ~stat.recvSelf
    \/ Len(stat.args) < 1

\* the second loop, from statement i on: the nodes emplaced into methods
RECURSIVE synthesize(_, _, _)
synthesize(rhs, i, acc) ==
    IF i > Len(rhs) THEN acc
    ELSE IF skipsStat(rhs[i]) THEN synthesize(rhs, i + 1, acc)
    ELSE LET n == getFieldName(rhs[i]) IN
         IF n = <<>> THEN synthesize(rhs, i + 1, acc)
         ELSE synthesize(rhs, i + 1,
                  acc \o << Sig0("untyped"),
                            Method0(n[1], "nil"),
                            Sig1("arg0", "untyped", "untyped"),
                            Method1(addEq(n[1]), "arg0", "nil") >>)

\* Flatfiles::run is called on a ClassDef
InitFlatfiles ==
    /\ FlattenIdle
    /\ LSPLoopInit(GlobalState(<<File("x.rb", "A1")>>), FALSE)
    /\ HashIdle /\ ReqInit
    /\ flatInput \in FlatInputs
    /\ klassDef = flatInput
    /\ klass = "klassDef"
    /\ accessors = <<>>
    /\ flatPc = "guards"

\* lines 30-45: return unless the class is a Class with an ancestor whose body
\* declares flatfile
flatfilesGuards ==
    /\ flatPc = "guards"
    /\ flatPc' = IF klassDef.kind # "Class" \/ klassDef.ancestors = <<>> THEN "returned"
                 ELSE IF ~isFlatfile(klassDef.rhs) THEN "returned"
                 ELSE "synthesize"
    /\ UNCHANGED <<flatInput, klassDef, klass, accessors>>
    /\ UNCHANGED <<reqVars, hashVars, lspVars, vars>>

\* lines 47-68: the accessors of every field are collected; klass is nulled
\* when there is none
flatfilesSynthesize ==
    /\ flatPc = "synthesize"
    /\ accessors' = synthesize(klassDef.rhs, 1, <<>>)
    /\ klass' = IF accessors' = <<>> THEN "nullptr" ELSE klass
    /\ flatPc' = "append"
    /\ UNCHANGED <<flatInput, klassDef>>
    /\ UNCHANGED <<reqVars, hashVars, lspVars, vars>>

\* lines 70-72: every collected node is appended to klass->rhs; the body of the
\* loop is the only place klass is dereferenced after line 66, and a
\* dereference of the null pointer is undefined
flatfilesAppend ==
    /\ flatPc = "append"
    /\ IF accessors = <<>>
       THEN /\ flatPc' = "returned"
            /\ UNCHANGED klassDef
       ELSE IF klass = "nullptr"
       THEN /\ flatPc' = "ub"
            /\ UNCHANGED klassDef
       ELSE /\ klassDef' = [klassDef EXCEPT !.rhs = @ \o accessors]
            /\ flatPc' = "returned"
    /\ UNCHANGED <<flatInput, klass, accessors>>
    /\ UNCHANGED <<reqVars, hashVars, lspVars, vars>>

NextFlatfiles ==
    \/ flatfilesGuards
    \/ flatfilesSynthesize
    \/ flatfilesAppend

SpecFlatfiles == InitFlatfiles /\ [][NextFlatfiles]_allVars

\* ---------------------------------------------------------------------------
\* Properties of the edit committer
\* ---------------------------------------------------------------------------

\* the update commitEdit handed to its first canTakeFastPath call: the files and
\* hashes of the edit, hasNewFiles still unset
FirstDecisionInput == [lastCommit.update EXCEPT !.hasNewFiles = FALSE]

\* the overriding hashes mergeUpdates handed to canTakeFastPath
MergeOverride == combineEvictions(lastCommit.olderEvictions, lastCommit.evictedHashes)

\* fast path enabled, no new files, and every file known, parsed and with the
\* hierarchy hash it had before (override entry first, hash vector otherwise)
FastPathConditions(gs, gsHashes, updates, override) ==
    /\ ~config.disableFastPath
    /\ ~updates.hasNewFiles
    /\ \A i \in 1..Len(updates.updatedFiles) :
         LET id == findFileByPath(gs, updates.updatedFiles[i].path)
             new == updates.updatedFileHashes[i].hierarchyHash
         IN /\ id # 0
            /\ new # HASH_STATE_INVALID
            /\ new = (IF id \in DOMAIN override THEN override[id] ELSE gsHashes[id]).hierarchyHash

\* C11: canTakeFastPath returns true if and only if the fast path is not
\* disabled, the update has no new files, and every file of the update exists in
\* the snapshot with a hierarchy hash that is not INVALID and equals the previous
\* one, taken from the override map when it has an entry for the file id and from
\* the hash vector otherwise.  Checked on both calls commitEdit makes: on the
\* plain update against the snapshot before the edit, and (through mergeUpdates)
\* on the merged update against the snapshot after it.
C11_FastPathIff ==
    lastCommit.called =>
        /\ lastCommit.update.canTakeFastPath
             = FastPathConditions(lastCommit.gs, lastCommit.hashes, FirstDecisionInput, NoHashes)
        /\ lastCommit.runningSlowPath # <<>> =>
             lastCommit.merged.canTakeFastPath
               = FastPathConditions(initialGS, globalStateHashes, lastCommit.merged, MergeOverride)

\* a merge decided with an override in force: an override entry that differs
\* from the stored hash of its file, and a merged update of two files
\* that takes the fast path
C11_Witness ==
    /\ lastCommit.called
    /\ lastCommit.runningSlowPath # <<>>
    /\ lastCommit.merged.canTakeFastPath
    /\ Len(lastCommit.merged.updatedFiles) = 2
    /\ \E id \in DOMAIN MergeOverride : MergeOverride[id] # globalStateHashes[id]

\* commitEdit has returned for the edit lastCommit describes
Returned == returned.epoch # 0 /\ lastCommit.edit.epoch = returned.epoch

PathsOf(files) == {f.path : f \in Range(files)}

\* the update holds a path the snapshot did not hold before the edit
HasNewPath(update) == ~(PathsOf(update.updatedFiles) \subseteq PathsOf(lastCommit.gs.files))

\* commitEdit canceled the running slow path and returned the merged update
ReturnedMerged == Returned /\ returned.canceled

\* C12: an update returned by commitEdit that holds a path which was not in the
\* snapshot before the edit has canTakeFastPath = false and hasNewFiles = true,
\* and so has a returned merged update when the slow-path update it absorbed or
\* the new update introduced a new file.
C12_NewFileForcesSlowPath ==
    Returned =>
        /\ HasNewPath(returned.update) =>
             ~returned.update.canTakeFastPath /\ returned.update.hasNewFiles
        /\ (ReturnedMerged /\ (lastCommit.older.hasNewFiles \/ HasNewPath(returned.plain))) =>
             ~returned.update.canTakeFastPath /\ returned.update.hasNewFiles

\* a merged update is returned whose only new file came with the canceled slow path
C12_Witness ==
    /\ ReturnedMerged
    /\ lastCommit.older.hasNewFiles
    /\ ~HasNewPath(returned.update)
    /\ returned.update.hasNewFiles
    /\ ~returned.update.canTakeFastPath

\* a file of the update did not parse
HasSyntaxError(update) ==
    \E i \in 1..Len(update.updatedFileHashes) :
        update.updatedFileHashes[i].hierarchyHash = HASH_STATE_INVALID

\* C13: a syntax error forces the slow path: an update with a file whose
\* hierarchyHash is INVALID, plain or merged, has canTakeFastPath = false, also
\* when the hash stored for the file is INVALID too; commitEdit still returns the
\* update, and it is dispatched as a slow path like any other.
C13_SyntaxErrorForcesSlowPath ==
    /\ (lastCommit.called /\ HasSyntaxError(lastCommit.update)) =>
          ~lastCommit.update.canTakeFastPath
    /\ (lastCommit.called /\ lastCommit.runningSlowPath # <<>>
          /\ HasSyntaxError(lastCommit.merged)) => ~lastCommit.merged.canTakeFastPath
    /\ (Returned /\ HasSyntaxError(returned.update)) =>
          /\ ~returned.update.canTakeFastPath
          /\ ~returned.sync
          /\ returned.startCommitEpoch

\* x.rb is stored with a syntax error and the edit sends it with one again
C13_Witness ==
    /\ Returned
    /\ \E i \in 1..Len(returned.update.updatedFiles) :
         LET id == findFileByPath(lastCommit.gs, returned.update.updatedFiles[i].path) IN
           /\ id # 0
           /\ lastCommit.hashes[id].hierarchyHash = HASH_STATE_INVALID
           /\ returned.update.updatedFileHashes[i].hierarchyHash = HASH_STATE_INVALID
    /\ ~config.disableFastPath
    /\ ~returned.update.hasNewFiles
    /\ ~returned.update.canTakeFastPath

\* the edit brings no new file and leaves the stored hierarchy hash of each of
\* its files as it is
SameHierarchy(update) ==
    /\ ~HasNewPath(update)
    /\ \A i \in 1..Len(update.updatedFiles) :
         update.updatedFileHashes[i].hierarchyHash
           = lastCommit.hashes[findFileByPath(lastCommit.gs, update.updatedFiles[i].path)].hierarchyHash

\* C14 (as stated): if an edit introduces no new files and the new hierarchyHash
\* of every updated file equals the hash stored for it in the snapshot, the
\* update commitEdit returns has canTakeFastPath = true and hasNewFiles = false.
C14_SameHashesFast ==
    (Returned /\ SameHierarchy(returned.plain)) =>
        returned.update.canTakeFastPath /\ ~returned.update.hasNewFiles

\* C14 (amended): the same, when the fast path is not disabled and no file of
\* the edit has a syntax error.
C14_SameValidHashesFast ==
    (Returned /\ SameHierarchy(returned.plain) /\ ~config.disableFastPath
       /\ ~HasSyntaxError(returned.plain)) =>
        returned.update.canTakeFastPath /\ ~returned.update.hasNewFiles

\* scenario S4: x.rb is stored with hash H, the edit sends another body for it
\* that also hashes to H, and the update returned takes the fast path
C14_Witness ==
    /\ Returned
    /\ ~config.disableFastPath
    /\ Len(returned.plain.updatedFiles) = 1
    /\ returned.plain.updatedFiles[1].path = "x.rb"
    /\ lastCommit.gs.files[1] # returned.plain.updatedFiles[1]
    /\ lastCommit.hashes[1].hierarchyHash = "H"
    /\ returned.plain.updatedFileHashes[1].hierarchyHash = "H"
    /\ returned.update.canTakeFastPath
    /\ ~returned.update.hasNewFiles

\* the two updates of the last two commitEdit calls: A the older, B the newer
UpdateA == lastCommit.previous.update

UpdateB == lastCommit.update

\* C15: merge monotonicity.  When update A took the fast path against the
\* snapshot before it and the next update B took the fast path against the
\* snapshot A left, both over files the snapshot held, then mergeUpdates of A
\* and B with the evictions recorded by committing them in that order takes the
\* fast path.
C15_MergeMonotone ==
    (/\ lastCommit.called
     /\ lastCommit.previous.called
     /\ UpdateA.canTakeFastPath
     /\ UpdateB.canTakeFastPath) => lastCommit.mergedWithPrevious.canTakeFastPath

\* A edits x.rb and y.rb, B edits x.rb only, both on the fast path, the two
\* files with different hierarchy hashes: the merged update holds y.rb from A
C15_Witness ==
    /\ lastCommit.called
    /\ lastCommit.previous.called
    /\ UpdateA.canTakeFastPath
    /\ UpdateB.canTakeFastPath
    /\ Len(UpdateA.updatedFiles) = 2
    /\ Len(UpdateB.updatedFiles) = 1
    /\ UpdateA.updatedFileHashes[1].hierarchyHash # UpdateA.updatedFileHashes[2].hierarchyHash
    /\ Len(lastCommit.mergedWithPrevious.updatedFiles) = 2
    /\ lastCommit.mergedWithPrevious.canTakeFastPath

\* scenario S5 at the merge: the fast path is enabled, the slow path of an edit
\* that took x.rb from hierarchy hash H to H2 is running, and the new edit sends
\* x.rb alone with hierarchy hash H again
ScenarioS5 ==
    /\ lastCommit.called
    /\ ~config.disableFastPath
    /\ lastCommit.runningSlowPath # <<>>
    /\ PathsOf(lastCommit.older.updatedFiles) = {"x.rb"}
    /\ lastCommit.older.updatedFileHashes[1].hierarchyHash = "H2"
    /\ lastCommit.olderEvictions[1].hierarchyHash = "H"
    /\ PathsOf(lastCommit.update.updatedFiles) = {"x.rb"}
    /\ lastCommit.update.updatedFileHashes[1].hierarchyHash = "H"

\* C16: scenario S5.  x.rb is stored at hierarchy hash H; edit E1 changes it to
\* H2 and its slow path is running; edit E2 restores hash H.  Then the merged
\* update has canTakeFastPath = true, and when the cancelation succeeds
\* commitEdit returns the merged update, which is run synchronously: no deep
\* copy of the snapshot, no commit epoch started.
C16_ScenarioS5 ==
    ScenarioS5 =>
        /\ lastCommit.merged.canTakeFastPath
        /\ ReturnedMerged =>
             /\ returned.update = lastCommit.merged
             /\ returned.sync
             /\ ~returned.startCommitEpoch
             /\ returned.update.updatedGS = <<>>

\* the update commitEdit returned, without the snapshot copy attached at the end
ReturnedUpdate == [returned.update EXCEPT !.updatedGS = <<>>]

\* C17: in commitEdit with a cancelable slow path running, tryCancelSlowPath is
\* attempted if and only if the merged update takes the fast path or the new
\* update U does not; when the attempt succeeds the merged update is returned;
\* when it fails, is not made, or no slow path is running, U is returned as it
\* was.
C17_CancelAttempt ==
    Returned =>
        /\ returned.slowPathRunning =>
             (returned.attempted
                <=> (returned.merged.canTakeFastPath \/ ~returned.plain.canTakeFastPath))
        /\ ~returned.slowPathRunning => (~returned.attempted /\ ~returned.canceled)
        /\ returned.canceled => (returned.attempted /\ ReturnedUpdate = returned.merged)
        /\ ~returned.canceled => ReturnedUpdate = returned.plain
        /\ returned.plain = lastCommit.update
        /\ returned.slowPathRunning => returned.merged = lastCommit.merged

\* the slow path reached its commit point between the look at the running slow
\* path and the cancelation: the attempt fails and U is returned
C17_Witness ==
    /\ Returned
    /\ returned.slowPathRunning
    /\ returned.attempted
    /\ ~returned.canceled
    /\ ReturnedUpdate = returned.plain
    /\ returned.merged # returned.plain

\* the entries of tcLog of slow-path tasks
SlowPathRuns == {i \in 1..Len(tcLog) : ~tcLog[i].sync}

\* the typechecker's state before the i-th task of tcLog ran
StateBefore(i) == tcLog[i].before

\* C18: cancelation is atomic with respect to the commit point of the slow
\* path.  No slow-path task is both canceled and committed; a task that was
\* canceled leaves the typechecker's state as it was; and a cancelation attempt
\* made after the task has reached its commit point fails.
C18_CancelAtomic ==
    /\ \A i \in SlowPathRuns :
         /\ tcLog[i].committed <=> tcLog[i].epoch \notin canceledEpochs
         /\ ~tcLog[i].committed => tcLog[i].gs = StateBefore(i)
    /\ (Returned /\ returned.slowPathRunning) =>
         LET running == lastCommit.runningSlowPath[1]
             committedBefore ==
                 \E i \in 1..Len(returned.tcLogBefore) :
                     /\ returned.tcLogBefore[i].epoch = running
                     /\ returned.tcLogBefore[i].committed
         IN /\ committedBefore => ~returned.canceled
            /\ returned.canceled <=> running \in canceledEpochs

\* a canceled slow path has come to its commit point and committed nothing, and
\* the merged update that replaced it has taken effect
C18_Witness ==
    /\ \E i \in SlowPathRuns : ~tcLog[i].committed /\ tcLog[i].epoch \in canceledEpochs
    /\ \E i \in 1..Len(tcLog) : tcLog[i].committed /\ tcLog[i].gs # StateBefore(i)
    /\ tasks = <<>>

\* the epochs of the tasks submitted so far, in the order they run: those that
\* have run, then those still queued
RunOrder ==
    [i \in 1..Len(tcLog) |-> tcLog[i].epoch] \o [i \in 1..Len(tasks) |-> tasks[i].update.epoch]

\* the number of client edits in the tasks that have committed
RECURSIVE CommittedEdits(_)
CommittedEdits(n) ==
    IF n = 0 THEN 0
    ELSE CommittedEdits(n - 1) + (IF tcLog[n].committed THEN tcLog[n].editCount ELSE 0)

\* every task submitted has run and the coordinator is between two messages
Quiescent == tasks = <<>> /\ coord.pc = "idle" /\ lastCommit.called

\* C19: the tasks of the coordinator take effect on the typechecker thread in
\* the order they were submitted, which is epoch order; a canceled slow path
\* has no effect and its content arrives with the merged update that replaced
\* it: once every task has run, the typechecker's state holds the files of the
\* snapshot, and the edits counted by the committed tasks are all the edits
\* committed, each once.
C19_SubmissionOrder ==
    /\ \A i, j \in 1..Len(RunOrder) : i < j => RunOrder[i] < RunOrder[j]
    /\ \A i \in 1..Len(tcLog) : ~tcLog[i].committed => tcLog[i].gs = tcLog[i].before
    /\ Quiescent =>
         /\ tcGS = initialGS
         /\ CommittedEdits(Len(tcLog)) = lastCommit.editCount

\* a slow path was canceled, the merged update that replaced it took the fast
\* path with a file only the canceled update held, and both tasks have run
C19_Witness ==
    /\ Quiescent
    /\ Len(tcLog) = 2
    /\ ~tcLog[1].committed
    /\ tcLog[2].committed
    /\ tcLog[2].sync
    /\ tcLog[2].editCount > lastCommit.update.editCount
    /\ Len(returned.update.updatedFiles) > Len(returned.plain.updatedFiles)
    /\ tcGS = initialGS

\* the slow-path tasks in the queue that are not marked canceled
LiveSlowPaths ==
    {i \in 1..Len(tasks) : ~tasks[i].sync /\ tasks[i].update.epoch \notin canceledEpochs}

\* C20: dispatch of a workspace edit.  An update with canTakeFastPath = true is
\* run with syncRun: no commit epoch is started for it, and the coordinator
\* takes no further message before that typecheck has run.  Any other update
\* has its commit epoch started and is enqueued with asyncRun: a queued slow
\* path that is not canceled always is the running slow path, and the
\* coordinator goes on without waiting for it.
C20_Dispatch ==
    /\ Returned =>
         /\ returned.sync <=> returned.update.canTakeFastPath
         /\ returned.startCommitEpoch <=> ~returned.update.canTakeFastPath
         /\ returned.sync =>
              \/ coord.pc = "sync" /\ Last(tasks).sync
                   /\ Last(tasks).update.epoch = returned.epoch
              \/ coord.pc = "idle" /\ tcLog # <<>> /\ Last(tcLog).epoch = returned.epoch
         /\ ~returned.sync => coord.pc = "idle"
    /\ \A i \in 1..Len(tasks) :
         /\ tasks[i].sync <=> tasks[i].update.canTakeFastPath
         /\ tasks[i].sync => (i = Len(tasks) /\ coord.pc = "sync")
    /\ \A i \in LiveSlowPaths : runningSlowPath = <<tasks[i].update.epoch>>
    /\ runningSlowPath # <<>> =>
         \E i \in LiveSlowPaths : runningSlowPath = <<tasks[i].update.epoch>>

\* a fast-path edit has run synchronously, and the slow path of the next edit
\* is queued with its commit epoch started while the coordinator is idle
C20_Witness ==
    /\ Returned
    /\ Len(tcLog) = 1
    /\ tcLog[1].sync
    /\ coord.pc = "idle"
    /\ Len(tasks) = 1
    /\ ~tasks[1].sync
    /\ runningSlowPath = <<returned.epoch>>
    /\ returned.update.updatedGS # <<>>

\* ---------------------------------------------------------------------------
\* Properties of the update commitEdit returns and of the coordinator's state
\* ---------------------------------------------------------------------------

\* the fields of an update that lastSlowPathUpdate keeps (lines 267-276): all
\* but updatedGS
StoredFields(update) == [update EXCEPT !.updatedGS = <<>>]

\* C21: for every update commitEdit returns, updatedGS is present exactly when
\* canTakeFastPath is false, and it is then a copy of the snapshot with the edit
\* applied; lastSlowPathUpdate and lastSlowPathEvictedStateHashes are
\* overwritten with the update and the evictions of this call exactly when the
\* update is slow-path, and keep the values they had before the call when it is
\* fast-path.
C21_SlowPathRecord ==
    Returned =>
        LET update == returned.update
        IN /\ (update.updatedGS # <<>>) <=> ~update.canTakeFastPath
           /\ ~update.canTakeFastPath =>
                /\ update.updatedGS = <<initialGS>>
                /\ lastSlowPathUpdate = StoredFields(update)
                /\ lastSlowPathEvictedStateHashes = lastCommit.evictedHashes
           /\ update.canTakeFastPath =>
                /\ lastSlowPathUpdate = lastCommit.older
                /\ lastSlowPathEvictedStateHashes = lastCommit.olderEvictions

\* a fast-path update was returned while the record of an earlier slow path was
\* in place, and the record is still that of the earlier slow path
C21_Witness ==
    /\ Returned
    /\ returned.update.canTakeFastPath
    /\ returned.update.updatedGS = <<>>
    /\ lastCommit.older.epoch # 0
    /\ lastSlowPathUpdate.epoch = lastCommit.older.epoch
    /\ lastSlowPathEvictedStateHashes # NoHashes

\* the positions of the files of older whose path newer does not hold, in the
\* order of older
KeptOlder(older, newer) ==
    LET keep(i) == older.updatedFiles[i].path \notin PathsOf(newer.updatedFiles)
    IN SelectSeq([i \in 1..Len(older.updatedFiles) |-> i], keep)

\* C22: mergeUpdates(L, Le, U, M), as commitEdit calls it with L the last
\* slow-path update and U the update of the edit, returns an update with the epoch of
\* U, the sum of the two edit counts, and a file list without a repeated path:
\* the files of U with the hashes and trees of U, followed by the files of L
\* whose path U does not hold, in the order of L and with the hashes and trees
\* of L.  L, Le and U are what they were before the call.
C22_MergeUnion ==
    lastCommit.called =>
        LET L == lastCommit.older
            U == lastCommit.update
            m == lastCommit.merged
            kept == KeptOlder(L, U)
            n == Len(U.updatedFiles)
        IN /\ m.epoch = U.epoch
           /\ m.editCount = L.editCount + U.editCount
           /\ \A i, j \in 1..Len(m.updatedFiles) :
                m.updatedFiles[i].path = m.updatedFiles[j].path => i = j
           /\ m.updatedFiles = U.updatedFiles \o [k \in 1..Len(kept) |-> L.updatedFiles[kept[k]]]
           /\ m.updatedFileHashes
                = U.updatedFileHashes \o [k \in 1..Len(kept) |-> L.updatedFileHashes[kept[k]]]
           /\ m.updatedFileIndexes
                = U.updatedFileIndexes \o [k \in 1..Len(kept) |-> L.updatedFileIndexes[kept[k]]]
           /\ coord.pc = "cancel" =>
                /\ lastSlowPathUpdate = L
                /\ lastSlowPathEvictedStateHashes = lastCommit.olderEvictions
                /\ coord.update = U

\* a merge of a slow-path update of two files with an edit of its second file:
\* the merged list is the file of the edit followed by the other file of the
\* slow-path update, and the two updates give different hashes for the shared path
C22_Witness ==
    /\ lastCommit.called
    /\ coord.pc = "cancel"
    /\ Len(lastCommit.older.updatedFiles) = 2
    /\ Len(lastCommit.update.updatedFiles) = 1
    /\ lastCommit.update.updatedFiles[1].path = lastCommit.older.updatedFiles[2].path
    /\ lastCommit.update.updatedFileHashes[1] # lastCommit.older.updatedFileHashes[2]
    /\ Len(lastCommit.merged.updatedFiles) = 2
    /\ lastCommit.merged.updatedFiles[2] = lastCommit.older.updatedFiles[1]

\* the three per-file arrays of an update are parallel: equal lengths, and at
\* every position the hash is the hash of the file there and the tree is the
\* parsed body of that file, tagged with the file's id in the snapshot
ParallelArrays(update) ==
    /\ Len(update.updatedFileHashes) = Len(update.updatedFiles)
    /\ Len(update.updatedFileIndexes) = Len(update.updatedFiles)
    /\ \A i \in 1..Len(update.updatedFiles) :
         LET file == update.updatedFiles[i]
         IN /\ update.updatedFileHashes[i] = computeFileHash(file)
            /\ update.updatedFileIndexes[i].tree = parse(file.source)
            /\ update.updatedFileIndexes[i].file = findFileByPath(initialGS, file.path)

\* C23: in every update commitEdit returns, plain or merged, and in the stored
\* lastSlowPathUpdate, updatedFiles, updatedFileHashes and updatedFileIndexes
\* have the same length and the hash and the tree at a position are those of
\* the file at that position; the files of a plain update are in the order of
\* the edit, whatever the order in which the indexer returned the trees.
C23_ParallelArrays ==
    /\ ParallelArrays(lastSlowPathUpdate)
    /\ Returned =>
         /\ ParallelArrays(returned.update)
         /\ ParallelArrays(returned.plain)
         /\ returned.plain.updatedFiles = lastCommit.edit.updates

\* a merged update of two files was returned, and the edit before it listed its
\* two files against the order of their ids, the order the indexer returns
C23_Witness ==
    /\ Returned
    /\ returned.canceled
    /\ Len(returned.update.updatedFiles) = 2
    /\ Len(lastSlowPathUpdate.updatedFiles) = 2
    /\ Len(lastCommit.older.updatedFiles) = 2
    /\ lastCommit.older.updatedFileIndexes[1].file > lastCommit.older.updatedFileIndexes[2].file
    /\ lastCommit.older.updatedFiles[1].source # lastCommit.older.updatedFiles[2].source

\* the ids the files of the last edit have in the snapshot
EditIds == {findFileByPath(initialGS, f.path) : f \in Range(lastCommit.edit.updates)}

\* the hash the coordinator held for a file id before the last edit: the entry
\* of the hash vector, or the default hash of the entry a new file is given
HashBefore(id) ==
    IF id <= Len(lastCommit.hashes) THEN lastCommit.hashes[id] ELSE DefaultFileHash

\* C24: commitEdit changes globalStateHashes exactly at the ids of the files of
\* the edit.  After it, the entry of each such file is the hash computed for the
\* file by this edit, the evictions map built for the edit maps exactly those
\* ids to the hashes stored immediately before the edit, and the entries of all
\* other files are what they were, whether or not a merge or a cancelation took
\* place.
C24_HashFrame ==
    lastCommit.called =>
        /\ \A i \in 1..Len(lastCommit.edit.updates) :
             globalStateHashes[findFileByPath(initialGS, lastCommit.edit.updates[i].path)]
               = computeFileHash(lastCommit.edit.updates[i])
        /\ DOMAIN lastCommit.evictedHashes = EditIds
        /\ \A id \in EditIds : lastCommit.evictedHashes[id] = HashBefore(id)
        /\ \A id \in (1..Len(globalStateHashes)) \ EditIds :
             /\ id <= Len(lastCommit.hashes)
             /\ globalStateHashes[id] = lastCommit.hashes[id]
        /\ Returned /\ ~returned.update.canTakeFastPath =>
             lastSlowPathEvictedStateHashes = lastCommit.evictedHashes

\* an edit of one stored file, committed while a slow path was running that was
\* then canceled: the hash of the file has changed, its old hash is in the
\* evictions map, and the snapshot holds another file, whose hash is untouched
C24_Witness ==
    /\ Returned
    /\ returned.canceled
    /\ Len(lastCommit.edit.updates) = 1
    /\ Len(globalStateHashes) = 2
    /\ \E id \in EditIds :
         /\ lastCommit.evictedHashes[id] # globalStateHashes[id]
         /\ lastCommit.evictedHashes[id] # DefaultFileHash

\* C25: after any sequence of committed edits the file table of the snapshot has
\* not shrunk, every path has one FileId and it is the id the path was first
\* given (the files the initial index entered keep their ids, and a commit
\* leaves every file it found under the id it had), and every FileId of the
\* snapshot is a valid index into globalStateHashes.
C25_FileIdsStable ==
    /\ \A id \in 1..Len(initialGS.files) : id \in DOMAIN globalStateHashes
    /\ \A i, j \in 1..Len(initialGS.files) :
         initialGS.files[i].path = initialGS.files[j].path => i = j
    /\ \E gs \in InitialSnapshots :
         /\ Len(initialGS.files) >= Len(gs.files)
         /\ \A id \in 1..Len(gs.files) : initialGS.files[id].path = gs.files[id].path
    /\ lastCommit.called =>
         /\ Len(initialGS.files) >= Len(lastCommit.gs.files)
         /\ \A id \in 1..Len(lastCommit.gs.files) :
              initialGS.files[id].path = lastCommit.gs.files[id].path

\* the second edit entered a new file behind the file the snapshot started
\* with, whose body the first edit had replaced; the hash vector was extended
C25_Witness ==
    /\ lastCommit.called
    /\ lastCommit.previous.called
    /\ Len(lastCommit.gs.files) = 1
    /\ Len(initialGS.files) = 2
    /\ Len(lastCommit.hashes) = 1
    /\ Len(globalStateHashes) = 2
    /\ lastCommit.gs.files[1].source # "A1"
    /\ initialGS.files[1] # lastCommit.gs.files[1]

\* the slow-path tasks in flight: submitted and not yet run
InFlight == {i \in 1..Len(tasks) : ~tasks[i].sync}

\* a step of the typechecker thread: a task has run
TypecheckerStep == tcLog' # tcLog

\* C27: slow-path isolation.  A slow-path task in flight works on the copy of
\* the snapshot made when its edit was committed: whatever edits the coordinator
\* commits to the shared snapshot in the meantime, what the task reads, and what
\* it installs when it commits, is the snapshot its own commit left.  The
\* shared snapshot, the hash vector, the evictions map and the last slow-path
\* update are written by no step of the typechecker thread.
C27_SlowPathIsolation ==
    /\ [](/\ \A i \in InFlight :
               readUpdatedGS(tasks[i].update, initialGS)
                 = lastCommit.snapshots[tasks[i].update.epoch]
          /\ \A i \in SlowPathRuns :
               tcLog[i].committed => tcLog[i].gs = lastCommit.snapshots[tcLog[i].epoch]
          /\ lastCommit.called => initialGS = Last(lastCommit.snapshots))
    /\ [][TypecheckerStep =>
            UNCHANGED <<initialGS, globalStateHashes, lastSlowPathUpdate,
                        lastSlowPathEvictedStateHashes>>]_allVars

\* a slow path has committed after the coordinator had committed a further edit
\* to the shared snapshot: the state it installed is the snapshot of its own
\* commit, which the shared snapshot no longer equals
C27_Witness ==
    /\ lastCommit.called
    /\ \E i \in SlowPathRuns :
         /\ tcLog[i].committed
         /\ tcLog[i].epoch < lastCommit.edit.epoch
         /\ tcLog[i].gs = lastCommit.gs
         /\ tcLog[i].gs # initialGS
         /\ tcGS = tcLog[i].gs
         /\ Returned
         /\ Len(returned.tasksBefore) = 1
         /\ returned.tasksBefore[1].update.epoch = tcLog[i].epoch
    /\ tasks # <<>>

\* C26: computeStateHashes terminates for any number of files, zero included,
\* and any number and interleaving of workers.  Each file index is taken from
\* the work queue by exactly one worker; when the caller returns, res has one
\* entry per input file and res[i] is the hash of files[i], or the default
\* FileHash when files[i] is null.  A worker that processed no file pushes
\* nothing, and the drain of the caller completes all the same.
C26_HashAll ==
    /\ [](/\ \A i \in DOMAIN popped : Cardinality(popped[i]) <= 1
          /\ \A k \in 1..Len(resultq.items) : resultq.items[k] # <<>>
          /\ \A w \in DOMAIN hashWorkers :
               hashWorkers[w].pc = "done" /\ hashWorkers[w].processedByThread = 0
                 => \A k \in 1..Len(resultq.items) :
                       \A j \in 1..Len(resultq.items[k]) :
                          w \notin popped[resultq.items[k][j][1]]
          /\ hashPc = "returned" =>
               /\ Len(res) = Len(hashFiles)
               /\ \A i \in 1..Len(hashFiles) :
                    /\ Cardinality(popped[i]) = 1
                    /\ res[i] = IF hashFiles[i] = NullFile THEN DefaultFileHash
                                ELSE computeFileHash(hashFiles[i])
               /\ res = computeStateHashes(hashFiles))
    /\ <>(hashPc = "returned")
    /\ <>(\A w \in DOMAIN hashWorkers : hashWorkers[w].pc = "done")

\* the caller has returned the hashes of three files, the second of them null,
\* that one worker took while the other worker took none and pushed nothing
C26_Witness ==
    /\ hashPc = "returned"
    /\ Len(hashFiles) = 3
    /\ hashFiles[2] = NullFile
    /\ hashFiles[1] # NullFile
    /\ res[2] = DefaultFileHash
    /\ res[1] # DefaultFileHash
    /\ Len(hashWorkers) = 2
    /\ hashWorkers[1].pc = "done"
    /\ hashWorkers[1].processedByThread = 0
    /\ hashWorkers[2].processedByThread = 3

\* ---------------------------------------------------------------------------
\* Properties of the request dispatcher
\* ---------------------------------------------------------------------------

\* the i-th message handled is still waiting in syncRun for its lambda to run
Pending(i) ==
    /\ i = Len(msgLog)
    /\ msgLog[i].submitted
    /\ tasks # <<>>
    /\ Last(tasks).kind = "request"

\* the messages of the output that carry the id of the i-th message handled
RepliesTo(i) == {k \in 1..Len(output) : output[k].id = msgLog[i].msg.id}

Requests == {i \in 1..Len(msgLog) : msgLog[i].msg.type = "request"}

CanceledRequests == {i \in Requests : msgLog[i].msg.canceled}

Fences == {i \in 1..Len(msgLog) :
              msgLog[i].msg.type = "notification" /\ msgLog[i].msg.method = "SorbetFence"}

\* the error code of a message of the output, 0 if it carries no error
ErrorCode(m) == IF "error" \in DOMAIN m /\ m.error # <<>> THEN m.error[1].code ELSE 0

\* C28: a request flagged canceled by the preprocessor is answered with a
\* response error RequestCancelled (-32800) before any dispatch: the response
\* is written at once, whatever the method, no handler is run for the request
\* and nothing is submitted to the typechecker thread.
C28_CanceledRequest ==
    \A i \in CanceledRequests :
        LET entry == msgLog[i]
        IN /\ entry.branch = "canceled"
           /\ ~entry.submitted
           /\ ~Pending(i)
           /\ \A k \in 1..Len(tasks) :
                tasks[k].kind = "request" => tasks[k].msg # entry.msg
           /\ Len(output) > entry.outputBefore
           /\ output[entry.outputBefore + 1].id = entry.msg.id
           /\ ErrorCode(output[entry.outputBefore + 1]) = RequestCancelled
           /\ RequestCancelled = -32800
           /\ output[entry.outputBefore + 1].result = <<>>
           /\ RepliesTo(i) = {entry.outputBefore + 1}

\* a canceled sorbet/readFile request was answered while a slow path was in
\* flight and before the typechecker thread had run anything
C28_Witness ==
    /\ \E i \in CanceledRequests :
         /\ msgLog[i].msg.method = "SorbetReadFile"
         /\ msgLog[i].tasksBefore # <<>>
         /\ tasks = msgLog[i].tasksBefore
         /\ ErrorCode(output[msgLog[i].outputBefore + 1]) = RequestCancelled
    /\ tcLog = <<>>

\* the edits that were queued on the typechecker thread when the i-th message
\* was taken
EditsBefore(i) ==
    {msgLog[i].tasksBefore[k].update.epoch :
        k \in {j \in 1..Len(msgLog[i].tasksBefore) : msgLog[i].tasksBefore[j].kind = "edit"}}

\* the fence notifications written to the client
Echoes == {k \in 1..Len(output) : "method" \in DOMAIN output[k]}

\* C29: a sorbet/fence notification is echoed back to the client once, with
\* the params it came with, by the time its handler returns; and the echo is
\* written only after every task submitted to the typechecker thread before the
\* fence, a slow-path edit still in flight included, has run.
C29_FenceEcho ==
    /\ \A i \in Fences :
         LET entry == msgLog[i]
         IN IF Pending(i)
            THEN Len(output) = entry.outputBefore
            ELSE /\ Len(output) > entry.outputBefore
                 /\ output[entry.outputBefore + 1]
                      = NotificationMessage("SorbetFence", entry.msg.params)
                 /\ \A e \in EditsBefore(i) : \E j \in 1..Len(tcLog) : tcLog[j].epoch = e
    /\ Cardinality(Echoes) = Cardinality({i \in Fences : ~Pending(i)})
    /\ \A k \in Echoes : \E i \in Fences : k = msgLog[i].outputBefore + 1

\* a fence arrived while a slow-path edit was in flight; the slow path has run
\* and the fence was echoed after it, with params 2
C29_Witness ==
    \E i \in Fences :
        /\ ~Pending(i)
        /\ msgLog[i].msg.params = 2
        /\ Len(msgLog[i].tasksBefore) = 1
        /\ ~msgLog[i].tasksBefore[1].sync
        /\ Len(tcLog) = 1
        /\ ~tcLog[1].sync
        /\ output[msgLog[i].outputBefore + 1].params = 2

\* the error code the reply to the i-th message handled has to carry, 0 for a
\* result
ExpectedCode(i) ==
    LET msg == msgLog[i].msg
    IN IF msg.canceled THEN RequestCancelled
       ELSE IF msg.method = "SorbetReadFile" /\ msg.params.uri \notin PathsOf(tcGS.files)
       THEN InvalidParams
       ELSE IF msg.method = "SorbetError" THEN msg.params.code
       ELSE IF msg.method \in {"Initialize", "Shutdown", "SorbetReadFile"} \cup QueryMethods
       THEN 0
       ELSE MethodNotFound

JustCanceled ==
    /\ ReturnedMerged
    /\ tcLog = returned.tcLogBefore
    /\ Len(tasks) = Len(returned.tasksBefore) + 1

\* the hierarchy hash of the file the typechecker's state holds under a path,
\* NOT_COMPUTED if it holds none
TypecheckerHierarchy(path) ==
    IF findFileByPath(tcGS, path) = 0 THEN HASH_STATE_NOT_COMPUTED
    ELSE computeFileHash(tcGS.files[findFileByPath(tcGS, path)]).hierarchyHash

\* C31: soundness of the merged fast-path decision.  Whenever commitEdit cancels
\* the slow path in flight and returns a merged update with canTakeFastPath =
\* true, every file of the merged update has the hierarchy hash the snapshot
\* held for it immediately before the canceled slow-path update was committed,
\* which is the state the typechecker still has.
C31_MergedFastSound ==
    JustCanceled /\ returned.update.canTakeFastPath =>
        \A i \in 1..Len(returned.update.updatedFiles) :
            returned.update.updatedFileHashes[i].hierarchyHash
              = TypecheckerHierarchy(returned.update.updatedFiles[i].path)

\* the ids of the files of the recorded slow-path update
RecordedIds ==
    {findFileByPath(initialGS, f.path) : f \in Range(lastSlowPathUpdate.updatedFiles)}

\* the hash a file had before the oldest edit folded into the update commitEdit
\* has just returned: for a merged update the entry the record of the canceled
\* update held for the file, and the hash stored before this edit for a file
\* only this edit touched
HashBeforeFolded(id) ==
    IF returned.canceled /\ id \in DOMAIN lastCommit.olderEvictions
    THEN lastCommit.olderEvictions[id]
    ELSE HashBefore(id)

\* C32: whenever lastSlowPathUpdate is recorded, lastSlowPathEvictedStateHashes
\* has an entry for the file id of every file of lastSlowPathUpdate.updatedFiles,
\* and the entry is the hash the file had before the oldest edit folded into
\* the update, also when the recorded update is a merged update produced by a
\* successful cancelation.
C32_RecordedEvictions ==
    /\ lastSlowPathUpdate.epoch # 0 =>
         RecordedIds \subseteq DOMAIN lastSlowPathEvictedStateHashes
    /\ Returned /\ ~returned.update.canTakeFastPath =>
         \A id \in RecordedIds \cap DOMAIN lastSlowPathEvictedStateHashes :
             lastSlowPathEvictedStateHashes[id] = HashBeforeFolded(id)

\* C35: whenever commitEdit observes a running cancelable slow path, the
\* running epoch is the epoch of lastSlowPathUpdate (the ENFORCE of line 251),
\* after fast edits, slow edits, successful and failed cancelations alike; the
\* same holds of the epoch state between calls; and the epochs of the updates
\* dispatched to the typechecker never decrease.
C35_RunningEpoch ==
    /\ lastCommit.called /\ lastCommit.runningSlowPath # <<>> =>
           lastCommit.runningSlowPath[1] = lastCommit.older.epoch
    /\ runningSlowPath # <<>> /\ coord.pc # "cancel" =>
           runningSlowPath[1] = lastSlowPathUpdate.epoch
    /\ \A i, j \in 1..Len(RunOrder) : i <= j => RunOrder[i] <= RunOrder[j]

\* a second edit met the slow path of the first still running, and both
\* updates have been dispatched
C35_Witness ==
    /\ Returned
    /\ returned.slowPathRunning
    /\ lastCommit.runningSlowPath = <<lastCommit.older.epoch>>
    /\ lastCommit.older.epoch # 0
    /\ Len(RunOrder) = 2
    /\ RunOrder[1] < RunOrder[2]

\* the update as commitEdit hands it to canTakeFastPath at line 200, before the
\* commit loop has looked for new files
BeforeCommitLoop(update) == [update EXCEPT !.hasNewFiles = FALSE]

\* C36: the fast-path decision never compares against a previous hash that is
\* NOT_COMPUTED.  In the call of canTakeFastPath commitEdit makes and in the
\* call mergeUpdates makes, every previous hash the loop selects for a file the
\* snapshot holds (the override entry or the entry of the hash vector) has a
\* computed hierarchyHash, also for a file an earlier, possibly canceled,
\* update entered.
C36_PreviousHashComputed ==
    lastCommit.called =>
        /\ canTakeFastPathEnforce(lastCommit.gs, config, lastCommit.hashes,
                                  BeforeCommitLoop(lastCommit.update), <<>>)
        /\ lastCommit.runningSlowPath # <<>> =>
               canTakeFastPathEnforce(initialGS, config, globalStateHashes,
                                      lastCommit.merged,
                                      combineEvictions(lastCommit.olderEvictions,
                                                       lastCommit.evictedHashes))

\* an edit touches a file the running slow-path update entered: the record of
\* that update holds the NOT_COMPUTED default for it, the hash vector a
\* computed hash
C36_Witness ==
    /\ lastCommit.called
    /\ lastCommit.runningSlowPath # <<>>
    /\ ~config.disableFastPath
    /\ \E f \in Range(lastCommit.update.updatedFiles) :
         LET fref == findFileByPath(lastCommit.gs, f.path) IN
         /\ fref \in DOMAIN lastCommit.olderEvictions
         /\ lastCommit.olderEvictions[fref].hierarchyHash = HASH_STATE_NOT_COMPUTED
         /\ lastCommit.hashes[fref].hierarchyHash # HASH_STATE_NOT_COMPUTED

\* the frames of the walk whose pre hook has run
Visited(k) == k < Len(walk) \/ pc = "post"

\* the ClassDefs being visited
ClassFrames == {k \in 1..Len(walk) : walk[k].node.kind = "ClassDef" /\ Visited(k)}

\* the frame of the innermost ClassDef being visited, 0 at the root
InnerClass == IF ClassFrames = {} THEN 0 ELSE CHOOSE k \in ClassFrames : \A m \in ClassFrames : m <= k

\* the pre hook of the node pushes a frame on the pending stack
Pushes(node) ==
    \/ node.kind = "MethodDef" /\ node.id \notin skipMethods
    \/ node.kind = "Send" /\ isMovable(node)

\* the static level the pre hook of the node computes above a frame of level prev
PushedLevel(node, prev) ==
    IF node.kind = "MethodDef" THEN prev + (IF node.isSelf THEN 1 ELSE 0)
    ELSE IF isMethodModifier(node) THEN prev + (IF node.kids[1].isSelf THEN 1 ELSE 0)
    ELSE 0

\* the static levels of the frames the nodes being visited in the current scope
\* have pushed, from walk frame k on, innermost last
RECURSIVE PushedLevels(_, _)
PushedLevels(k, acc) ==
    IF k > Len(walk) THEN acc
    ELSE PushedLevels(k + 1,
             IF Visited(k) /\ Pushes(walk[k].node)
             THEN Append(acc, PushedLevel(walk[k].node,
                                          IF acc = <<>> THEN 0 ELSE Last(acc)))
             ELSE acc)

\* C33: the flattener's structural assertions hold on every input tree.  The
\* pending stack of the current scope holds exactly the frames of the MethodDefs
\* (not in the skip set) and movable Sends being visited in it, innermost on
\* top, so a post-visit finds its own frame on top of a non-empty stack; a
\* frame's slot index is -1 or an index of the scope's moved list; the slot of a
\* pending frame is unfilled; at every class or root flush the pending stack is
\* empty and every reserved slot is filled; the scope stack holds one scope
\* more than the ClassDefs being visited and is empty when Flatten::run returns.
C33_StructuralAssertions ==
    /\ enforce
    /\ pc # "ub"
    /\ pc \in {"pre", "post"} =>
         LET ms == curMethodSet
             levels == PushedLevels(InnerClass + 1, <<>>)
         IN /\ Len(methodScopes) = 1 + Cardinality(ClassFrames)
            /\ Len(ms.stack) = Len(levels)
            /\ \A j \in 1..Len(ms.stack) :
                 /\ ms.stack[j].staticLevel = levels[j]
                 /\ ms.stack[j].idx = -1 \/ ms.stack[j].idx \in 0..(Len(ms.methods) - 1)
                 /\ ms.stack[j].idx # -1 => ms.methods[ms.stack[j].idx + 1].expr = NullExpr
                 /\ \A m \in 1..Len(ms.stack) :
                      m # j /\ ms.stack[j].idx # -1 => ms.stack[m].idx # ms.stack[j].idx
    /\ lastFlush.scope # "none" =>
         \A k \in 1..Len(lastFlush.exprs) : lastFlush.exprs[k].expr # NullExpr
    /\ pc = "addMethods" => Len(methodScopes) = 1 /\ curMethodSet.stack = <<>>
    /\ pc = "done" => methodScopes = <<>>

\* the post-visit of a MethodDef nested in a method of a class: its frame holds
\* a reserved slot
C33_Witness ==
    /\ pc = "post"
    /\ top.node.kind = "MethodDef"
    /\ top.node.id \notin skipMethods
    /\ Len(methodScopes) = 2
    /\ Len(curMethodSet.stack) = 2
    /\ Last(curMethodSet.stack).idx = 0

\* the MethodDef a moved item carries: the item itself, or the argument of a
\* modifier Send
Carried(expr) ==
    IF expr.kind = "MethodDef" THEN <<expr>>
    ELSE IF expr.kind = "Send" /\ isMethodModifier(expr) THEN <<expr.kids[1]>>
    ELSE <<>>

\* the moved items with every modifier Send replaced by the MethodDef it wraps,
\* at the static level computeStaticLevel gave the Send (it is computed from the
\* same stack and the same MethodDef in preTransformSend and preTransformMethodDef)
Unwrapped(exprs) ==
    [k \in 1..Len(exprs) |->
        IF Carried(exprs[k].expr) # <<>>
        THEN MovedItem(Carried(exprs[k].expr)[1], exprs[k].staticLevel)
        ELSE exprs[k]]

\* the MethodDefs a flushed class body carries, each with its is_static and the
\* place it was emitted at: <<p>> in the body, <<p, q>> in the class << self
\* block at p
Emitted(out) ==
    {[id |-> Carried(out[p])[1].id, isSelf |-> Carried(out[p])[1].isSelf, at |-> <<p>>] :
        p \in {p \in 1..Len(out) : Carried(out[p]) # <<>>}}
    \cup UNION {
        {[id |-> Carried(out[p].kids[q])[1].id,
          isSelf |-> Carried(out[p].kids[q])[1].isSelf, at |-> <<p, q>>] :
            q \in {q \in 1..Len(out[p].kids) : Carried(out[p].kids[q]) # <<>>}} :
        p \in {p \in 1..Len(out) : out[p] = singletonClass(out[p].kids)}}

\* C34: wrapping a nested method definition in a visibility modifier does not
\* change its static-ness.  At every class flush, the MethodDef carried inside a
\* lifted modifier Send ends with the same is_static value, and in the same
\* target body, as it would if it had been lifted unwrapped from that position.
C34_ModifierKeepsStaticness ==
    lastFlush.scope = "class" =>
        Emitted(lastFlush.out)
          = Emitted(addMethodsRHS(Unwrapped(lastFlush.exprs), lastFlush.rhs).rhs)

\* the class is a Class with at least one ancestor whose body holds the
\* flatfile declaration
Flagged(c) ==
    /\ c.kind = "Class"
    /\ Len(c.ancestors) >= 1
    /\ \E i \in 1..Len(c.rhs) : c.rhs[i] = FlatSend("declareFlatfile", TRUE, <<>>)

\* the field name of a body statement: the first argument when it is a symbol,
\* else the second when it is one
FieldNames(stat) ==
    IF stat.args[1] \in {SymbolLit("a"), SymbolLit("b")} THEN {stat.args[1].value}
    ELSE IF Len(stat.args) = 2 /\ stat.args[2] \in {SymbolLit("a"), SymbolLit("b")}
    THEN {stat.args[2].value}
    ELSE {}

\* the body statements an accessor pair is synthesized for
Fields(c) ==
    {i \in 1..Len(c.rhs) :
        /\ c.rhs[i].node = "Send"
        /\ c.rhs[i].fun \in {"from", "field", "pattern"}
        /\ c.rhs[i].recvSelf
        /\ c.rhs[i].args # <<>>
        /\ FieldNames(c.rhs[i]) # {}}

\* the place of the first of the four nodes of field i in the body
FirstNodeOf(c, i) == Len(c.rhs) + 4 * Cardinality({j \in Fields(c) : j < i}) + 1

\* C37: Flatfiles::run on a Class with an ancestor whose body holds the
\* flatfile declaration appends, for each body Send named from, field or
\* pattern with a self receiver, at least one argument and a symbol field name
\* (first argument, else second), exactly four nodes in order: sig, getter
\* name, sig, setter name=, after the existing body, which is left unchanged;
\* when no accessor is synthesized or the class is not flagged the body is left
\* unchanged; and no access is made through the nulled class pointer.
C37_FlatfilesAccessors ==
    /\ flatPc # "ub"
    /\ klassDef.kind = flatInput.kind /\ klassDef.ancestors = flatInput.ancestors
    /\ flatPc # "returned" => klassDef = flatInput
    /\ flatPc = "returned" /\ ~Flagged(flatInput) => klassDef = flatInput
    /\ flatPc = "returned" /\ Flagged(flatInput) =>
         /\ Len(klassDef.rhs) = Len(flatInput.rhs) + 4 * Cardinality(Fields(flatInput))
         /\ SubSeq(klassDef.rhs, 1, Len(flatInput.rhs)) = flatInput.rhs
         /\ \A i \in Fields(flatInput) :
              \E n \in FieldNames(flatInput.rhs[i]) :
                 LET p == FirstNodeOf(flatInput, i) IN
                 /\ klassDef.rhs[p] = Sig0("untyped")
                 /\ klassDef.rhs[p + 1] = Method0(n, "nil")
                 /\ klassDef.rhs[p + 2] = Sig1("arg0", "untyped", "untyped")
                 /\ klassDef.rhs[p + 3] = Method1(n \o "=", "arg0", "nil")

\* a flagged class with a field named by its second argument has got its
\* accessors
C37_Witness ==
    /\ flatPc = "returned"
    /\ Flagged(flatInput)
    /\ Len(flatInput.rhs) = 2
    /\ flatInput.rhs[2] = FlatSend("field", TRUE, <<StringLit("s"), SymbolLit("b")>>)
    /\ Len(klassDef.rhs) = 6
    /\ klassDef.rhs[6].name = "b="

==============================================================================
